---- MODULE Spec2Model ----
(***************************************************************************)
(* Base-station protocol and state layer of the rover teleoperation link:  *)
(* ControllerState, ControllerManager, InputProcessor (controller_manager), *)
(* MessageFormatter and CommunicationManager (communication),              *)
(* HeartbeatManager (heartbeat) and the control loop of                    *)
(* XbeeControlRefactored (Xbee_refactored).                                *)
(*                                                                         *)
(* Conventions.  A Python dict is a function whose DOMAIN is the set of    *)
(* keys present.  A single-byte axis value b'\x64' is the integer it       *)
(* holds.  A raw axis reading (a float) is an integer number of            *)
(* hundredths.  Times are in milliseconds (the source's nanosecond         *)
(* constants divided by NS_PER_MS).  The CommunicationManager is the one   *)
(* its constructor gives by default, with the legacy 10-byte format.  The  *)
(* transport (xbee_device.send_data) either accepts a frame or raises: the *)
(* input ok of a sending operation.                                        *)
(***************************************************************************)
EXTENDS Integers, Sequences, FiniteSets, TLC

VARIABLES
    values,                  \* ControllerState.values: type -> dict
    joysticks,               \* ControllerManager.joysticks (its keys)
    instance_id_values_map,  \* ControllerManager.instance_id_values_map
    creep_mode,              \* ControllerManager.creep_mode
    reverse_mode,            \* ControllerManager.reverse_mode
    quit,                    \* XbeeControlRefactored.quit
    pc,                      \* position of the control loop
    xbee_enabled,            \* XbeeControlRefactored.xbee_enabled
    timer,                   \* control_loop's timer
    current_time,            \* control_loop's current_time
    comm,                    \* the CommunicationManager's fields
    hb,                      \* the HeartbeatManager's fields
    now,                     \* the clock (time.time_ns, time.time), in ms
    call,                    \* the last operation called and what it did
    wire,                    \* what the transport has seen so far
    message_classes,         \* MessageCodec._message_classes
    codec_call,              \* the last MessageCodec operation and its outcome
    udp,                     \* the UdpCommunicationManager and its receive thread
    tester,                  \* the HeartbeatTester and what it did last
    display                  \* the TkinterDisplay and its UI thread

cmVars == <<values, joysticks, instance_id_values_map, creep_mode, reverse_mode>>
loopVars == <<quit, pc, xbee_enabled, timer, current_time>>
vars == <<values, joysticks, instance_id_values_map, creep_mode, reverse_mode,
          quit, pc, xbee_enabled, timer, current_time, comm, hb, now, call, wire,
          message_classes, codec_call, udp, tester, display, display>>
codecVars == <<message_classes, codec_call>>

----------------------------------------------------------------------------
(* CONSTANTS of CommandCodes.py *)

START_MESSAGE == 222
QUIT_MESSAGE == 254
HEARTBEAT_MESSAGE == 170
HEARTBEAT_MESSAGE_LENGTH == 3
HEARTBEAT_INTERVAL == 1000
UPDATE_FREQUENCY == 40
ONE_HUNDRED_MS == 100
FIVE_HUNDRED_MS == 500
\* DEADBAND_THRESHOLD = 0.10, in hundredths
DEADBAND_THRESHOLD == 10
NORMAL_MULTIPLIER == 100
CREEP_MULTIPLIER == 20

MIN_VALUE == 0
NEUTRAL_INT == 100
NEUTRAL_HEX == 100
MAX_VALUE == 200
AXIS_LX == 0
AXIS_LY == 1
AXIS_RX == 5
AXIS_RY == 4
AXIS_LT == 2
AXIS_RT == 3

ON == 2
OFF == 1

XBOX_A == 0
XBOX_B == 1
XBOX_X == 2
XBOX_Y == 3
LEFT_BUMPER == 4
RIGHT_BUMPER == 5
SELECT == 6
START == 7
HOME == 8

N64_A == 1
N64_B == 2
C_UP == 9
C_DOWN == 0
C_LEFT == 3
C_RIGHT == 8
N64_L == 4
N64_R == 5
N64_Z == 6
N64_START == 12
DP_UP == 20
DP_DOWN == 21
DP_LEFT == 22
DP_RIGHT == 23

JOYPAD_UP == <<0, 1>>
JOYPAD_DOWN == <<0, -1>>
JOYPAD_LEFT == <<-1, 0>>
JOYPAD_RIGHT == <<1, 0>>

----------------------------------------------------------------------------
(* Python dict operations *)

\* d.get(k, default)
Get(d, k, default) == IF k \in DOMAIN d THEN d[k] ELSE default

\* d[k] = v
Put(d, k, v) == [x \in (DOMAIN d) \cup {k} |-> IF x = k THEN v ELSE d[x]]

\* del d[k]
Del(d, k) == [x \in (DOMAIN d) \ {k} |-> d[x]]

----------------------------------------------------------------------------
(* ControllerState *)

XboxDefaults ==
    [k \in {AXIS_LX, AXIS_LY, AXIS_RX, AXIS_RY, AXIS_LT, AXIS_RT,
            XBOX_A + 6, XBOX_B + 6, XBOX_X + 6, XBOX_Y + 6,
            LEFT_BUMPER + 6, RIGHT_BUMPER + 6, START + 6, SELECT + 6} |->
        IF k \in {AXIS_LX, AXIS_LY, AXIS_RX, AXIS_RY} THEN NEUTRAL_HEX ELSE OFF]

N64Defaults ==
    [k \in {N64_A, N64_B, C_UP, C_DOWN, C_LEFT, C_RIGHT, N64_L, N64_R, N64_Z,
            DP_UP, DP_DOWN, DP_LEFT, DP_RIGHT} |-> OFF]

ControllerStateInit == [xbox |-> XboxDefaults, n64 |-> N64Defaults]

get_controller_values(vals, controller_type) ==
    IF controller_type \in DOMAIN vals THEN vals[controller_type] ELSE <<>>

\* the variant that forgets a key when it is set to OFF
update_value_drop_off(vals, controller_type, key, value) ==
    IF controller_type \in DOMAIN vals
    THEN [vals EXCEPT ![controller_type] =
              IF value = OFF THEN Del(@, key) ELSE Put(@, key, value)]
    ELSE vals

update_value(vals, controller_type, key, value) ==
    IF controller_type \in DOMAIN vals
    THEN [vals EXCEPT ![controller_type] = Put(@, key, value)]
    ELSE vals

----------------------------------------------------------------------------
(* ControllerManager.  A state of the manager and of its owner is a record  *)
(* s with the fields values, joysticks, instance_id_values_map,            *)
(* creep_mode, reverse_mode, quit and raised (an exception left the        *)
(* handler).                                                               *)

\* the device name, lower-cased: has "xbox", else has "dinput", else neither
DeviceNames == {"xbox", "dinput", "other"}

\* the variant that asks for the end only when a mapped device goes
handle_hotplug_event_mapped_only(s, e) ==
    IF e.type = "JOYDEVICEADDED"
    THEN [st |-> [s EXCEPT
                    !.joysticks = @ \cup {e.instance_id},
                    !.instance_id_values_map =
                        IF e.name = "xbox" THEN Put(@, e.instance_id, "xbox")
                        ELSE IF e.name = "dinput" THEN Put(@, e.instance_id, "n64")
                        ELSE @],
          ret |-> FALSE]
    ELSE IF e.type = "JOYDEVICEREMOVED"
    THEN [st |-> [s EXCEPT
                    !.joysticks = @ \ {e.instance_id},
                    !.instance_id_values_map =
                        IF e.instance_id \in DOMAIN @ THEN Del(@, e.instance_id) ELSE @],
          ret |-> (e.instance_id \in DOMAIN s.instance_id_values_map)]
    ELSE [st |-> s, ret |-> FALSE]

handle_hotplug_event(s, e) ==
    IF e.type = "JOYDEVICEADDED"
    THEN [st |-> [s EXCEPT
                    !.joysticks = @ \cup {e.instance_id},
                    !.instance_id_values_map =
                        IF e.name = "xbox" THEN Put(@, e.instance_id, "xbox")
                        ELSE IF e.name = "dinput" THEN Put(@, e.instance_id, "n64")
                        ELSE @],
          ret |-> FALSE]
    ELSE IF e.type = "JOYDEVICEREMOVED"
    THEN [st |-> [s EXCEPT
                    !.joysticks = @ \ {e.instance_id},
                    !.instance_id_values_map =
                        IF e.instance_id \in DOMAIN @ THEN Del(@, e.instance_id) ELSE @],
          ret |-> TRUE]
    ELSE [st |-> s, ret |-> FALSE]

should_quit_on_button(s, e) ==
    IF e.instance_id \notin DOMAIN s.instance_id_values_map
    THEN FALSE
    ELSE LET controller_type == s.instance_id_values_map[e.instance_id]
         IN  \/ (controller_type = "xbox" /\ e.button = HOME)
             \/ (controller_type = "n64" /\ e.button = N64_START)

\* the variant that takes an unmapped device for an xbox one
get_controller_type_default_xbox(s, instance_id) ==
    Get(s.instance_id_values_map, instance_id, "xbox")

\* instance_id_values_map.get(instance_id); "None" when absent
get_controller_type(s, instance_id) ==
    Get(s.instance_id_values_map, instance_id, "None")

\* a toggle instead of a set
update_mode_flags_toggle(s, joypad_direction, controller_type) ==
    IF controller_type # "xbox"
    THEN s
    ELSE LET select_pressed == Get(s.values["xbox"], SELECT + 6, 0) = ON
             start_pressed == Get(s.values["xbox"], START + 6, 0) = ON
         IN  IF joypad_direction \in {JOYPAD_DOWN, JOYPAD_UP}
             THEN [s EXCEPT
                     !.reverse_mode = IF select_pressed THEN ~@ ELSE @,
                     !.creep_mode = IF start_pressed THEN ~@ ELSE @]
             ELSE s

\* the variant that puts the stored LY and RY bytes back to neutral when it
\* sets or clears a mode
update_mode_flags_recentre(s, joypad_direction, controller_type) ==
    IF controller_type # "xbox"
    THEN s
    ELSE LET select_pressed == Get(s.values["xbox"], SELECT + 6, 0) = ON
             start_pressed == Get(s.values["xbox"], START + 6, 0) = ON
             centred == [s.values EXCEPT !["xbox"][AXIS_LY] = NEUTRAL_INT,
                                         !["xbox"][AXIS_RY] = NEUTRAL_INT]
         IN  IF joypad_direction = JOYPAD_DOWN /\ (select_pressed \/ start_pressed)
             THEN [s EXCEPT
                     !.values = centred,
                     !.reverse_mode = IF select_pressed THEN FALSE ELSE @,
                     !.creep_mode = IF start_pressed THEN FALSE ELSE @]
             ELSE IF joypad_direction = JOYPAD_UP /\ (select_pressed \/ start_pressed)
             THEN [s EXCEPT
                     !.values = centred,
                     !.reverse_mode = IF select_pressed THEN TRUE ELSE @,
                     !.creep_mode = IF start_pressed THEN TRUE ELSE @]
             ELSE s

update_mode_flags(s, joypad_direction, controller_type) ==
    IF controller_type # "xbox"
    THEN s
    ELSE LET select_pressed == Get(s.values["xbox"], SELECT + 6, 0) = ON
             start_pressed == Get(s.values["xbox"], START + 6, 0) = ON
         IN  IF joypad_direction = JOYPAD_DOWN
             THEN [s EXCEPT
                     !.reverse_mode = IF select_pressed THEN FALSE ELSE @,
                     !.creep_mode = IF start_pressed THEN FALSE ELSE @]
             ELSE IF joypad_direction = JOYPAD_UP
             THEN [s EXCEPT
                     !.reverse_mode = IF select_pressed THEN TRUE ELSE @,
                     !.creep_mode = IF start_pressed THEN TRUE ELSE @]
             ELSE s

----------------------------------------------------------------------------
(* InputProcessor *)

Abs(x) == IF x < 0 THEN -x ELSE x

calculate_axis_multiplier(s, controller_type) ==
    IF controller_type = "n64"
    THEN NORMAL_MULTIPLIER
    ELSE LET m == IF s.creep_mode THEN CREEP_MULTIPLIER ELSE NORMAL_MULTIPLIER
         IN  IF s.reverse_mode THEN -m ELSE m

\* the upper clamp forgotten
convert_axis_value_no_max(value, multiplier) ==
    LET new_value == ((multiplier * value) \div 100) + NEUTRAL_INT
    IN  IF new_value < MIN_VALUE THEN MIN_VALUE ELSE new_value

\* the variant that cuts the fraction off toward zero
convert_axis_value_truncate(value, multiplier) ==
    LET product == multiplier * value
        whole == IF product < 0 THEN 0 - ((0 - product) \div 100) ELSE product \div 100
        new_value == whole + NEUTRAL_INT
    IN  IF new_value < MIN_VALUE THEN MIN_VALUE
        ELSE IF new_value > MAX_VALUE THEN MAX_VALUE
        ELSE new_value

\* floor(multiplier * value + NEUTRAL_INT), value in hundredths, then the clamp
convert_axis_value(value, multiplier) ==
    LET new_value == ((multiplier * value) \div 100) + NEUTRAL_INT
    IN  IF new_value < MIN_VALUE THEN MIN_VALUE
        ELSE IF new_value > MAX_VALUE THEN MAX_VALUE
        ELSE new_value

\* the variant that zeroes a reading at the threshold too
apply_deadband_inclusive(raw) == IF Abs(raw) > DEADBAND_THRESHOLD THEN raw ELSE 0

\* value = event.value if abs(event.value) >= self.deadband else 0
apply_deadband(raw) == IF Abs(raw) >= DEADBAND_THRESHOLD THEN raw ELSE 0

process_joystick_axis(s, e) ==
    LET controller_type == get_controller_type(s, e.instance_id)
    IN  IF controller_type = "None" \/ controller_type = "n64"
        THEN s
        ELSE LET multiplier == calculate_axis_multiplier(s, controller_type)
                 value == apply_deadband(e.value)
                 new_value == convert_axis_value(value, multiplier)
             IN  [s EXCEPT !.values = update_value(@, controller_type, e.axis, new_value)]

\* the variant that stores 1 for a pulled trigger and 0 for a released one
process_trigger_axis_pressed(s, e) ==
    LET controller_type == get_controller_type(s, e.instance_id)
    IN  IF controller_type = "None" \/ controller_type = "n64"
        THEN s
        ELSE LET value == IF e.value > 0 THEN 1 ELSE 0
             IN  [s EXCEPT !.values = update_value(@, controller_type, e.axis, value)]

process_trigger_axis(s, e) ==
    LET controller_type == get_controller_type(s, e.instance_id)
    IN  IF controller_type = "None" \/ controller_type = "n64"
        THEN s
        ELSE LET value == IF e.value > 0 THEN ON ELSE OFF
             IN  [s EXCEPT !.values = update_value(@, controller_type, e.axis, value)]

\* the variant that stores the reading as it is
process_button_raw(s, e) ==
    LET controller_type == get_controller_type(s, e.instance_id)
    IN  IF controller_type = "None"
        THEN s
        ELSE IF e.joy \notin s.joysticks
        THEN [s EXCEPT !.raised = TRUE]
        ELSE LET key_offset == IF controller_type = "xbox" THEN 6 ELSE 0
                 button_key == e.button + key_offset
             IN  [s EXCEPT !.values =
                     update_value(@, controller_type, button_key, e.pressed)]

\* the variant with a key offset of 10 for a device that is not an xbox one
process_button_offset_ten(s, e) ==
    LET controller_type == get_controller_type(s, e.instance_id)
    IN  IF controller_type = "None"
        THEN s
        ELSE IF e.joy \notin s.joysticks
        THEN [s EXCEPT !.raised = TRUE]
        ELSE LET key_offset == IF controller_type = "xbox" THEN 6 ELSE 10
                 button_key == e.button + key_offset
             IN  [s EXCEPT !.values =
                     update_value(@, controller_type, button_key, e.pressed + 1)]

\* joysticks[event.joy] raises KeyError for an unknown key; get_button is
\* the polled reading e.pressed (0 or 1)
process_button(s, e) ==
    LET controller_type == get_controller_type(s, e.instance_id)
    IN  IF controller_type = "None"
        THEN s
        ELSE IF e.joy \notin s.joysticks
        THEN [s EXCEPT !.raised = TRUE]
        ELSE LET key_offset == IF controller_type = "xbox" THEN 6 ELSE 0
                 button_key == e.button + key_offset
             IN  [s EXCEPT !.values =
                     update_value(@, controller_type, button_key, e.pressed + 1)]

\* the variant that sets the member a direction names and clears nothing
process_n64_joypad_no_clear(s, e) ==
    LET x == e.value[1]
        y == e.value[2]
        v1 == IF x = -1 THEN update_value(s.values, "n64", DP_LEFT, ON)
              ELSE IF x = 1 THEN update_value(s.values, "n64", DP_RIGHT, ON)
              ELSE s.values
        v2 == IF y = -1 THEN update_value(v1, "n64", DP_DOWN, ON)
              ELSE IF y = 1 THEN update_value(v1, "n64", DP_UP, ON)
              ELSE v1
    IN  [s EXCEPT !.values = v2]

process_n64_joypad(s, e) ==
    LET x == e.value[1]
        y == e.value[2]
        v1 == IF x = 0
              THEN update_value(update_value(s.values, "n64", DP_LEFT, OFF),
                                "n64", DP_RIGHT, OFF)
              ELSE IF x = -1
              THEN update_value(update_value(s.values, "n64", DP_LEFT, ON),
                                "n64", DP_RIGHT, OFF)
              ELSE IF x = 1
              THEN update_value(update_value(s.values, "n64", DP_LEFT, OFF),
                                "n64", DP_RIGHT, ON)
              ELSE s.values
        v2 == IF y = 0
              THEN update_value(update_value(v1, "n64", DP_DOWN, OFF),
                                "n64", DP_UP, OFF)
              ELSE IF y = -1
              THEN update_value(update_value(v1, "n64", DP_DOWN, ON),
                                "n64", DP_UP, OFF)
              ELSE IF y = 1
              THEN update_value(update_value(v1, "n64", DP_DOWN, OFF),
                                "n64", DP_UP, ON)
              ELSE v1
    IN  [s EXCEPT !.values = v2]

process_xbox_joypad(s, e) == update_mode_flags(s, e.value, "xbox")

\* every mapped device's hat drives the mode flags
process_joypad_any(s, e) ==
    LET controller_type == get_controller_type(s, e.instance_id)
    IN  IF controller_type = "None" THEN s ELSE process_xbox_joypad(s, e)

process_joypad(s, e) ==
    LET controller_type == get_controller_type(s, e.instance_id)
    IN  IF controller_type = "None"
        THEN s
        ELSE IF controller_type = "n64"
        THEN process_n64_joypad(s, e)
        ELSE process_xbox_joypad(s, e)

----------------------------------------------------------------------------
(* XbeeControlRefactored: event routing *)

\* the variant that takes the flag of the hotplug handler for quit
handle_controller_hotplug_assign(s, e) ==
    LET r == handle_hotplug_event(s, e)
    IN  [r.st EXCEPT !.quit = r.ret]

handle_controller_hotplug(s, e) ==
    LET r == handle_hotplug_event(s, e)
    IN  IF r.ret THEN [r.st EXCEPT !.quit = TRUE] ELSE r.st

handle_axis_motion(s, e) ==
    IF e.axis \in {AXIS_LX, AXIS_LY, AXIS_RX, AXIS_RY}
    THEN process_joystick_axis(s, e)
    ELSE process_trigger_axis(s, e)

handle_button_event(s, e) ==
    LET r == process_button(s, e)
    IN  IF r.raised THEN r
        ELSE IF should_quit_on_button(r, e) THEN [r EXCEPT !.quit = TRUE]
        ELSE r

handle_joypad_motion(s, e) == process_joypad(s, e)

send_command(s, e) ==
    IF s.joysticks = {} /\ e.type # "JOYDEVICEADDED"
    THEN s
    ELSE IF e.type \in {"JOYDEVICEADDED", "JOYDEVICEREMOVED"}
    THEN handle_controller_hotplug(s, e)
    ELSE IF e.type = "JOYAXISMOTION"
    THEN handle_axis_motion(s, e)
    ELSE IF e.type \in {"JOYBUTTONDOWN", "JOYBUTTONUP"}
    THEN handle_button_event(s, e)
    ELSE IF e.type = "JOYHATMOTION"
    THEN handle_joypad_motion(s, e)
    ELSE s

\* one iteration of the for loop of _process_controller_events
process_controller_event(s, e) ==
    IF e.type = "QUIT"
    THEN [s EXCEPT !.quit = TRUE]
    ELSE send_command(s, e)

----------------------------------------------------------------------------
(* MessageFormatter (legacy 10-byte frame) *)

\* the variant that reads an absent button as 0
pack_xbox_buttons_1_absent_zero(vals) ==
    1 * Get(vals, XBOX_A + 6, 0) + 4 * Get(vals, XBOX_B + 6, 0)
    + 16 * Get(vals, XBOX_X + 6, 0) + 64 * Get(vals, XBOX_Y + 6, 0)

pack_xbox_buttons_1(vals) ==
    1 * Get(vals, XBOX_A + 6, OFF) + 4 * Get(vals, XBOX_B + 6, OFF)
    + 16 * Get(vals, XBOX_X + 6, OFF) + 64 * Get(vals, XBOX_Y + 6, OFF)

pack_xbox_buttons_2(vals) ==
    1 * Get(vals, LEFT_BUMPER + 6, OFF) + 4 * Get(vals, RIGHT_BUMPER + 6, OFF)
    + 16 * Get(vals, AXIS_LT, OFF) + 64 * Get(vals, AXIS_RT, OFF)

pack_n64_buttons_1(vals) ==
    1 * Get(vals, N64_A, OFF) + 4 * Get(vals, N64_B, OFF)
    + 16 * Get(vals, N64_L, OFF) + 64 * Get(vals, N64_R, OFF)

pack_n64_buttons_2(vals) ==
    1 * Get(vals, C_UP, OFF) + 4 * Get(vals, C_DOWN, OFF)
    + 16 * Get(vals, C_LEFT, OFF) + 64 * Get(vals, C_RIGHT, OFF)

pack_n64_buttons_3(vals) ==
    1 * Get(vals, DP_UP, OFF) + 4 * Get(vals, DP_DOWN, OFF)
    + 16 * Get(vals, DP_LEFT, OFF) + 64 * Get(vals, DP_RIGHT, OFF)

pack_n64_buttons_4(vals) == 1 * Get(vals, N64_Z, OFF)

\* the variant that keeps LY first in both modes
create_xbox_message_no_swap(vals, rev) ==
    <<START_MESSAGE, Get(vals, AXIS_LY, NEUTRAL_HEX), Get(vals, AXIS_RY, NEUTRAL_HEX),
      pack_xbox_buttons_1(vals), pack_xbox_buttons_2(vals)>>

\* the variant that sends LX and RX for LY and RY
create_xbox_message_x_axes(vals, rev) ==
    (IF ~rev
     THEN <<START_MESSAGE, Get(vals, AXIS_LX, NEUTRAL_HEX), Get(vals, AXIS_RX, NEUTRAL_HEX)>>
     ELSE <<START_MESSAGE, Get(vals, AXIS_RX, NEUTRAL_HEX), Get(vals, AXIS_LX, NEUTRAL_HEX)>>)
    \o <<pack_xbox_buttons_1(vals), pack_xbox_buttons_2(vals)>>

create_xbox_message(vals, rev) ==
    (IF ~rev
     THEN <<START_MESSAGE, Get(vals, AXIS_LY, NEUTRAL_HEX), Get(vals, AXIS_RY, NEUTRAL_HEX)>>
     ELSE <<START_MESSAGE, Get(vals, AXIS_RY, NEUTRAL_HEX), Get(vals, AXIS_LY, NEUTRAL_HEX)>>)
    \o <<pack_xbox_buttons_1(vals), pack_xbox_buttons_2(vals)>>

create_n64_message(vals) ==
    <<START_MESSAGE, pack_n64_buttons_1(vals), pack_n64_buttons_2(vals),
      pack_n64_buttons_3(vals), pack_n64_buttons_4(vals)>>

\* the list handed to bytearray(); bytearray raises ValueError unless every
\* item is in range(256)
create_combined_message(xbox_values, n64_values, rev) ==
    create_xbox_message(xbox_values, rev) \o create_n64_message(n64_values)

IsByteList(data) == \A i \in 1..Len(data) : data[i] \in 0..255

\* the variant that keeps one bit of the two
Field_one_bit(byte_val, d) == (byte_val \div d) % 2

\* (byte_val // d) % 4
Field(byte_val, d) == (byte_val \div d) % 4

unpack_xbox_buttons_1(byte_val) ==
    [k \in {XBOX_A + 6, XBOX_B + 6, XBOX_X + 6, XBOX_Y + 6} |->
        IF k = XBOX_A + 6 THEN Field(byte_val, 1)
        ELSE IF k = XBOX_B + 6 THEN Field(byte_val, 4)
        ELSE IF k = XBOX_X + 6 THEN Field(byte_val, 16)
        ELSE Field(byte_val, 64)]

unpack_xbox_buttons_2(byte_val) ==
    [k \in {LEFT_BUMPER + 6, RIGHT_BUMPER + 6, AXIS_LT, AXIS_RT} |->
        IF k = LEFT_BUMPER + 6 THEN Field(byte_val, 1)
        ELSE IF k = RIGHT_BUMPER + 6 THEN Field(byte_val, 4)
        ELSE IF k = AXIS_LT THEN Field(byte_val, 16)
        ELSE Field(byte_val, 64)]

unpack_n64_buttons_1(byte_val) ==
    [k \in {N64_A, N64_B, N64_L, N64_R} |->
        IF k = N64_A THEN Field(byte_val, 1)
        ELSE IF k = N64_B THEN Field(byte_val, 4)
        ELSE IF k = N64_L THEN Field(byte_val, 16)
        ELSE Field(byte_val, 64)]

unpack_n64_buttons_2(byte_val) ==
    [k \in {C_UP, C_DOWN, C_LEFT, C_RIGHT} |->
        IF k = C_UP THEN Field(byte_val, 1)
        ELSE IF k = C_DOWN THEN Field(byte_val, 4)
        ELSE IF k = C_LEFT THEN Field(byte_val, 16)
        ELSE Field(byte_val, 64)]

unpack_n64_buttons_3(byte_val) ==
    [k \in {DP_UP, DP_DOWN, DP_LEFT, DP_RIGHT} |->
        IF k = DP_UP THEN Field(byte_val, 1)
        ELSE IF k = DP_DOWN THEN Field(byte_val, 4)
        ELSE IF k = DP_LEFT THEN Field(byte_val, 16)
        ELSE Field(byte_val, 64)]

unpack_n64_buttons_4(byte_val) == [k \in {N64_Z} |-> Field(byte_val, 1)]

\* values.update(other)
Update(d, other) ==
    [k \in (DOMAIN d) \cup (DOMAIN other) |->
        IF k \in DOMAIN other THEN other[k] ELSE d[k]]

\* the parsers give [raised, ret]: ValueError raised, or the dict(s) returned
parse_xbox_message(data) ==
    IF Len(data) < 5 \/ data[1] # START_MESSAGE
    THEN [raised |-> TRUE, ret |-> <<>>]
    ELSE [raised |-> FALSE,
          ret |-> Update(Update(Put(Put(<<>>, AXIS_LY, data[2]), AXIS_RY, data[3]),
                                unpack_xbox_buttons_1(data[4])),
                         unpack_xbox_buttons_2(data[5]))]

parse_n64_message(data) ==
    IF Len(data) < 5 \/ data[1] # START_MESSAGE
    THEN [raised |-> TRUE, ret |-> <<>>]
    ELSE [raised |-> FALSE,
          ret |-> Update(Update(Update(unpack_n64_buttons_1(data[2]),
                                       unpack_n64_buttons_2(data[3])),
                                unpack_n64_buttons_3(data[4])),
                         unpack_n64_buttons_4(data[5]))]

parse_combined_message(data) ==
    IF Len(data) < 10
    THEN [raised |-> TRUE, ret |-> <<>>]
    ELSE LET x == parse_xbox_message(SubSeq(data, 1, 5))
             n == parse_n64_message(SubSeq(data, 6, 10))
         IN  IF x.raised \/ n.raised
             THEN [raised |-> TRUE, ret |-> <<>>]
             ELSE [raised |-> FALSE, ret |-> <<x.ret, n.ret>>]

----------------------------------------------------------------------------
(* CommunicationManager.  c is the record of its fields: xbee_device and   *)
(* remote_xbee (whether the handle is set), last_message, enabled.  ok     *)
(* says whether the transport's send_data returns (TRUE) or raises.  Every *)
(* operation gives [comm, ret, raised, sent]: the fields after it, what it  *)
(* returns, whether an exception leaves it, and the frames it handed to    *)
(* send_data, each with the transport's answer.                            *)

CommunicationManagerInit(xbee_device, remote_xbee) ==
    [xbee_device |-> xbee_device, remote_xbee |-> remote_xbee,
     last_message |-> <<>>, enabled |-> TRUE]

NotSent(c) == [comm |-> c, ret |-> FALSE, raised |-> FALSE, sent |-> <<>>]

\* self.xbee_device.send_data(...); self.last_message = message; return True
\* inside try/except Exception: return False
\* the variant that caches the frame whether or not the transport took it
TransmitAndCache_always(c, message, ok) ==
    [comm |-> [c EXCEPT !.last_message = message], ret |-> ok,
     raised |-> FALSE, sent |-> <<[frame |-> message, ok |-> ok]>>]

\* the variant without the try/except: the transport's exception goes up
TransmitAndCache_uncaught(c, message, ok) ==
    IF ok
    THEN [comm |-> [c EXCEPT !.last_message = message], ret |-> TRUE,
          raised |-> FALSE, sent |-> <<[frame |-> message, ok |-> TRUE]>>]
    ELSE [comm |-> c, ret |-> FALSE,
          raised |-> TRUE, sent |-> <<[frame |-> message, ok |-> FALSE]>>]

TransmitAndCache(c, message, ok) ==
    IF ok
    THEN [comm |-> [c EXCEPT !.last_message = message], ret |-> TRUE,
          raised |-> FALSE, sent |-> <<[frame |-> message, ok |-> TRUE]>>]
    ELSE [comm |-> c, ret |-> FALSE,
          raised |-> FALSE, sent |-> <<[frame |-> message, ok |-> FALSE]>>]

\* the variant without the comparison against the last frame
send_controller_data_no_compare(c, xbox_values, n64_values, rev, ok) ==
    IF ~c.enabled \/ ~c.xbee_device \/ ~c.remote_xbee
    THEN NotSent(c)
    ELSE LET message == create_combined_message(xbox_values, n64_values, rev)
         IN  IF ~IsByteList(message) THEN NotSent(c)
             ELSE TransmitAndCache(c, message, ok)

send_controller_data(c, xbox_values, n64_values, rev, ok) ==
    IF ~c.enabled \/ ~c.xbee_device \/ ~c.remote_xbee
    THEN NotSent(c)
    ELSE LET message == create_combined_message(xbox_values, n64_values, rev)
         IN  IF ~IsByteList(message) THEN NotSent(c)
             ELSE IF message = c.last_message THEN NotSent(c)
             ELSE TransmitAndCache(c, message, ok)

\* data: a list of integers (a bytes item stands as the integers it holds)
send_compact_message(c, data, skip_duplicate_check, ok) ==
    IF ~c.enabled \/ ~c.xbee_device \/ ~c.remote_xbee
    THEN NotSent(c)
    ELSE IF ~IsByteList(data) THEN NotSent(c)
    ELSE IF ~skip_duplicate_check /\ data = c.last_message THEN NotSent(c)
    ELSE TransmitAndCache(c, data, ok)

send_quit_message(c, ok) == send_compact_message(c, <<QUIT_MESSAGE>>, FALSE, ok)

\* the variant that sends the heartbeat frame past the cache
comm_send_heartbeat_uncached(c, timestamp_ms, t, ok) ==
    LET stamp == IF timestamp_ms = 0 THEN t % 65536 ELSE timestamp_ms
        r == send_compact_message(c, <<HEARTBEAT_MESSAGE, stamp % 256,
                                       (stamp \div 256) % 256>>, TRUE, ok)
    IN  [r EXCEPT !.comm = c]

\* timestamp_ms 0 stands for the clock, int(time.time() * 1000) % 65536; the
\* frame is the identifier, the low byte and the high byte, and it is sent
\* with skip_duplicate_check=True
comm_send_heartbeat(c, timestamp_ms, t, ok) ==
    LET stamp == IF timestamp_ms = 0 THEN t % 65536 ELSE timestamp_ms
        low_byte == stamp % 256
        high_byte == (stamp \div 256) % 256
    IN  send_compact_message(c, <<HEARTBEAT_MESSAGE, low_byte, high_byte>>, TRUE, ok)

\* the variant that forgets the cached frame when communication is enabled
comm_enable_reset(c) == [c EXCEPT !.enabled = TRUE, !.last_message = <<>>]

comm_enable(c) == [c EXCEPT !.enabled = TRUE]
comm_disable(c) == [c EXCEPT !.enabled = FALSE]

----------------------------------------------------------------------------
(* HeartbeatManager.  h is the record of its fields; t is the clock at the *)
(* call (the reads of one call see the same instant); ok as above.         *)

HeartbeatManagerInit(xbee_device, remote_xbee) ==
    [xbee_device |-> xbee_device, remote_xbee |-> remote_xbee,
     last_heartbeat_time |-> 0, heartbeat_interval |-> HEARTBEAT_INTERVAL,
     enabled |-> TRUE]

\* the variant that waits until more than the interval has passed
should_send_heartbeat_after(h, t) ==
    (t - h.last_heartbeat_time) > h.heartbeat_interval

\* the variant that takes the time since the epoch for the time since the
\* last heartbeat
should_send_heartbeat_since_epoch(h, t) == t >= h.heartbeat_interval

should_send_heartbeat(h, t) ==
    (t - h.last_heartbeat_time) >= h.heartbeat_interval

\* the variant that takes the first 2 of the 4 bytes
create_heartbeat_message_first_bytes(t) ==
    LET unix_timestamp == t \div 1000
    IN  <<HEARTBEAT_MESSAGE, (unix_timestamp \div 16777216) % 256,
          (unix_timestamp \div 65536) % 256>>

\* identifier, then the last 2 bytes of struct.pack('>I', int(time.time()))
create_heartbeat_message(t) ==
    LET unix_timestamp == t \div 1000
    IN  <<HEARTBEAT_MESSAGE, (unix_timestamp \div 256) % 256, unix_timestamp % 256>>

HbNotSent(h) == [hb |-> h, ret |-> FALSE, raised |-> FALSE, sent |-> <<>>]

\* the variant that stamps the time of every attempt
send_heartbeat_stamp_attempt(h, t, ok) ==
    IF ~h.enabled \/ ~h.xbee_device \/ ~h.remote_xbee
    THEN HbNotSent(h)
    ELSE [hb |-> [h EXCEPT !.last_heartbeat_time = t], ret |-> ok,
          raised |-> FALSE,
          sent |-> <<[frame |-> create_heartbeat_message(t), ok |-> ok]>>]

send_heartbeat(h, t, ok) ==
    IF ~h.enabled \/ ~h.xbee_device \/ ~h.remote_xbee
    THEN HbNotSent(h)
    ELSE LET heartbeat_msg == create_heartbeat_message(t)
         IN  IF ok
             THEN [hb |-> [h EXCEPT !.last_heartbeat_time = t], ret |-> TRUE,
                   raised |-> FALSE,
                   sent |-> <<[frame |-> heartbeat_msg, ok |-> TRUE]>>]
             ELSE [hb |-> h, ret |-> FALSE, raised |-> FALSE,
                   sent |-> <<[frame |-> heartbeat_msg, ok |-> FALSE]>>]

heartbeat_update(h, t, ok) ==
    IF should_send_heartbeat(h, t) THEN send_heartbeat(h, t, ok) ELSE HbNotSent(h)

set_interval(h, interval) == [h EXCEPT !.heartbeat_interval = interval]
hb_enable(h) == [h EXCEPT !.enabled = TRUE]
hb_disable(h) == [h EXCEPT !.enabled = FALSE]

----------------------------------------------------------------------------
(* HeartbeatTester.  Its manager has no device; last is its last operation: *)
(* the message it was about, whether the parse gave None, and the           *)
(* timestamp of the dict the parse gave otherwise.                          *)

NoBeat == [timestamp |-> 0, received_at |-> 0, message |-> <<>>]

HeartbeatTesterInit ==
    [received_heartbeats |-> <<>>,
     manager |-> HeartbeatManagerInit(FALSE, FALSE),
     pc |-> "idle", start_time |-> 0, heartbeat_count |-> 0,
     last |-> [op |-> "none", message |-> <<>>, none |-> TRUE,
               ret |-> NoBeat, at |-> 0]]

\* simulate_receive_heartbeat at clock t: [tester, none, ret]; message[1:3]
\* unpacked as '>H'
simulate_receive_heartbeat(k, message, t) ==
    IF Len(message) < HEARTBEAT_MESSAGE_LENGTH
    THEN [tester |-> k, none |-> TRUE, ret |-> NoBeat]
    ELSE IF message[1] # HEARTBEAT_MESSAGE
    THEN [tester |-> k, none |-> TRUE, ret |-> NoBeat]
    ELSE LET timestamp_bytes == SubSeq(message, 2, 3)
             heartbeat_data ==
                 [timestamp |-> 256 * timestamp_bytes[1] + timestamp_bytes[2],
                  received_at |-> t, message |-> message]
         IN  [tester |-> [k EXCEPT !.received_heartbeats = Append(@, heartbeat_data)],
              none |-> FALSE, ret |-> heartbeat_data]

\* test_interval_timing up to its while loop, at clock t; pc is the place
\* of the tester in it
test_interval_timing_start(k, t) ==
    [k EXCEPT !.manager = set_interval(@, FIVE_HUNDRED_MS),
              !.start_time = t, !.heartbeat_count = 0, !.pc = "while"]

\* the body of the while loop of test_interval_timing at clock t, up to
\* its sleep
test_interval_timing_body(k, t) ==
    IF should_send_heartbeat(k.manager, t)
    THEN [k EXCEPT !.heartbeat_count = @ + 1,
                   !.manager.last_heartbeat_time = t]
    ELSE k

\* test_heartbeat_creation: the manager's message, parsed
test_heartbeat_creation(k, t) ==
    LET message == create_heartbeat_message(t)
    IN  simulate_receive_heartbeat(k, message, t)

----------------------------------------------------------------------------
(* XbeeControlRefactored: update_info, send_quit_message, cleanup *)

\* the frames of one operation, each marked with the kind of send it was
Tag(sent, kind) ==
    [i \in 1..Len(sent) |-> [frame |-> sent[i].frame, ok |-> sent[i].ok, by |-> kind]]

\* the variant that sends the controller data first and the heartbeat after
update_info_data_first(enabled, h, c, vals, rev, t, okHb, okData) ==
    LET r2 == IF enabled
              THEN send_controller_data(c, get_controller_values(vals, "xbox"),
                                        get_controller_values(vals, "n64"), rev, okData)
              ELSE NotSent(c)
        r1 == IF enabled /\ ~r2.raised THEN heartbeat_update(h, t, okHb)
              ELSE HbNotSent(h)
    IN  [hb |-> r1.hb, comm |-> r2.comm,
         raised |-> (r1.raised \/ r2.raised),
         sent |-> Tag(r2.sent, "controller_data") \o Tag(r1.sent, "heartbeat")]

\* heartbeat_manager.update(), then communication_manager.send_controller_data
update_info(enabled, h, c, vals, rev, t, okHb, okData) ==
    LET r1 == IF enabled THEN heartbeat_update(h, t, okHb) ELSE HbNotSent(h)
        r2 == IF enabled /\ ~r1.raised
              THEN send_controller_data(c, get_controller_values(vals, "xbox"),
                                        get_controller_values(vals, "n64"), rev, okData)
              ELSE NotSent(c)
    IN  [hb |-> r1.hb, comm |-> r2.comm,
         raised |-> (r1.raised \/ r2.raised),
         sent |-> Tag(r1.sent, "heartbeat") \o Tag(r2.sent, "controller_data")]

xbee_send_quit_message(enabled, c, ok) ==
    IF enabled THEN send_quit_message(c, ok) ELSE NotSent(c)

----------------------------------------------------------------------------
(* The state after construction *)

EmptyDict == [x \in {} |-> 0]

ControllerManagerInit ==
    /\ values = ControllerStateInit
    /\ joysticks = {}
    /\ instance_id_values_map = EmptyDict
    /\ creep_mode = FALSE
    /\ reverse_mode = FALSE

\* no operation called yet
NoCall ==
    [op |-> "none", args |-> <<>>, ok |-> TRUE, ret |-> FALSE, raised |-> FALSE,
     sent |-> <<>>, before_message |-> <<>>, before_time |-> 0, at |-> 0]

\* nothing handed to the transport yet, the device open
NoWire ==
    [quit_frames |-> 0, closed |-> FALSE, after_quit |-> FALSE,
     after_close |-> FALSE]

StartTime == 1000

----------------------------------------------------------------------------
(***************************************************************************)
(* message_system.py: the extensible format.  A frame is a list of bytes:  *)
(* the 15-byte header struct '>BIQH' and the JSON payload.  A str is the   *)
(* list of its character codes (ASCII here, so that its UTF-8 encoding is  *)
(* the same list); a float is the list of the 8 bytes of its IEEE 754      *)
(* double, high byte first, which is what struct '>d' packs.  A value that *)
(* json handles is a record [t, n, s, d]: t its Python type, n the number  *)
(* of an int or bool, s the characters of a str (or the literal of a       *)
(* float), d the items of a dict, in insertion order, as <<key, value>>.   *)
(***************************************************************************)

\* data[m-1:n] of Python, the indices counted from 1 here
Slice(data, m, n) ==
    IF m > Len(data) THEN <<>>
    ELSE SubSeq(data, m, IF n > Len(data) THEN Len(data) ELSE n)

\* MessageType
HEARTBEAT == 1
CONTROLLER_DATA == 2
TELEMETRY == 3
STATUS_REQUEST == 4
COMMAND == 6
ERROR == 8
QUIT == 255
GPS_DATA == 18

HEADER_SIZE == 15

\* the characters of the str literals of the module
Chars ==
    [x \in {"status", "alive", "degraded", "xbox", "n64", "reverse_mode",
            "sensors", "system", "command", "parameters", "error_code",
            "message", "axis_ly", "battery", "type", "data", "timestamp",
            "telemetry", ""} |->
        CASE x = "status"       -> <<115, 116, 97, 116, 117, 115>>
          [] x = "alive"        -> <<97, 108, 105, 118, 101>>
          [] x = "degraded"     -> <<100, 101, 103, 114, 97, 100, 101, 100>>
          [] x = "xbox"         -> <<120, 98, 111, 120>>
          [] x = "n64"          -> <<110, 54, 52>>
          [] x = "reverse_mode" -> <<114, 101, 118, 101, 114, 115, 101, 95, 109, 111, 100, 101>>
          [] x = "sensors"      -> <<115, 101, 110, 115, 111, 114, 115>>
          [] x = "system"       -> <<115, 121, 115, 116, 101, 109>>
          [] x = "command"      -> <<99, 111, 109, 109, 97, 110, 100>>
          [] x = "parameters"   -> <<112, 97, 114, 97, 109, 101, 116, 101, 114, 115>>
          [] x = "error_code"   -> <<101, 114, 114, 111, 114, 95, 99, 111, 100, 101>>
          [] x = "message"      -> <<109, 101, 115, 115, 97, 103, 101>>
          [] x = "axis_ly"      -> <<97, 120, 105, 115, 95, 108, 121>>
          [] x = "battery"      -> <<98, 97, 116, 116, 101, 114, 121>>
          [] x = "type"         -> <<116, 121, 112, 101>>
          [] x = "data"         -> <<100, 97, 116, 97>>
          [] x = "timestamp"    -> <<116, 105, 109, 101, 115, 116, 97, 109, 112>>
          [] x = "telemetry"    -> <<116, 101, 108, 101, 109, 101, 116, 114, 121>>
          [] x = ""             -> <<>>]

JStr(s) == [t |-> "str", n |-> 0, s |-> s, d |-> <<>>]
JInt(n) == [t |-> "int", n |-> n, s |-> <<>>, d |-> <<>>]
JBool(b) == [t |-> "bool", n |-> IF b THEN 1 ELSE 0, s |-> <<>>, d |-> <<>>]
JDict(d) == [t |-> "dict", n |-> 0, s |-> <<>>, d |-> d]
\* a float in a payload, by its literal
JFloat(text) == [t |-> "float", n |-> 0, s |-> text, d |-> <<>>]
JNone == [t |-> "NoneType", n |-> 0, s |-> <<>>, d |-> <<>>]

\* d.get(k, default) of a dict d with str keys k
RECURSIVE DictGet(_, _, _)
DictGet(d, k, default) ==
    IF d = <<>> THEN default
    ELSE IF d[1][1] = JStr(k) THEN d[1][2]
    ELSE DictGet(Tail(d), k, default)

\* d[k] = v: a key already there keeps its place
DictSet(d, k, v) ==
    IF \E i \in 1..Len(d) : d[i][1] = k
    THEN [i \in 1..Len(d) |-> IF d[i][1] = k THEN <<k, v>> ELSE d[i]]
    ELSE Append(d, <<k, v>>)

\* Python's truth value of v (the "or" of the constructors)
Falsy(v) ==
    \/ v.t = "NoneType"
    \/ v.t \in {"int", "bool"} /\ v.n = 0
    \/ v.t = "str" /\ v.s = <<>>
    \/ v.t = "dict" /\ v.d = <<>>

\* the decimal digits of n >= 0
RECURSIVE Digits(_)
Digits(n) == IF n < 10 THEN <<48 + n>> ELSE Digits(n \div 10) \o <<48 + (n % 10)>>

IntText(n) == IF n < 0 THEN <<45>> \o Digits(0 - n) ELSE Digits(n)

TrueText == <<116, 114, 117, 101>>
FalseText == <<102, 97, 108, 115, 101>>
NullText == <<110, 117, 108, 108>>

\* json.dumps turns a key that is not a str into one
KeyText(k) ==
    CASE k.t = "str" -> k.s
      [] k.t = "int" -> IntText(k.n)
      [] k.t = "bool" -> IF k.n = 1 THEN TrueText ELSE FalseText
      [] k.t = "float" -> k.s
      [] k.t = "NoneType" -> NullText

\* json.dumps(v).encode('utf-8') with the default separators ", " and ": "
\* (the strs of the model have no character that json escapes)
RECURSIVE json_dumps(_)
RECURSIVE DumpItems(_)
DumpItems(d) ==
    IF d = <<>> THEN <<>>
    ELSE <<34>> \o KeyText(d[1][1]) \o <<34, 58, 32>> \o json_dumps(d[1][2])
         \o (IF Len(d) > 1 THEN <<44, 32>> \o DumpItems(Tail(d)) ELSE <<>>)

json_dumps(v) ==
    CASE v.t = "str" -> <<34>> \o v.s \o <<34>>
      [] v.t = "int" -> IntText(v.n)
      [] v.t = "bool" -> IF v.n = 1 THEN TrueText ELSE FalseText
      [] v.t = "float" -> v.s
      [] v.t = "NoneType" -> NullText
      [] v.t = "dict" -> <<123>> \o DumpItems(v.d) \o <<125>>

\* json.loads: the scanner gives [ok, val, next], next the index after the
\* value.  It reads objects, strs without escapes, ints, true, false and
\* null, with white space between the tokens, and a number with a fraction
\* as the float of that literal; the texts of the model have no array, no
\* escape and no exponent.
NoParse == [ok |-> FALSE, val |-> JNone, next |-> 0]

IsWs(c) == c \in {32, 9, 10, 13}
IsDigit(c) == c \in 48..57

RECURSIVE SkipWs(_, _)
SkipWs(b, i) == IF i <= Len(b) /\ IsWs(b[i]) THEN SkipWs(b, i + 1) ELSE i

At(b, i) == IF i >= 1 /\ i <= Len(b) THEN b[i] ELSE 0 - 1

\* the index of the quote that closes the str whose characters start at i,
\* or 0 when there is none before a control character or the end
RECURSIVE ScanString(_, _)
ScanString(b, i) ==
    IF i > Len(b) \/ b[i] < 32 \/ b[i] = 92 THEN 0
    ELSE IF b[i] = 34 THEN i
    ELSE ScanString(b, i + 1)

ParseString(b, i) ==
    LET j == ScanString(b, i + 1)
    IN  IF j = 0 THEN NoParse
        ELSE [ok |-> TRUE, val |-> JStr(SubSeq(b, i + 1, j - 1)), next |-> j + 1]

\* the index after the last digit of the run of digits that starts at i
RECURSIVE ScanDigits(_, _)
ScanDigits(b, i) == IF IsDigit(At(b, i)) THEN ScanDigits(b, i + 1) ELSE i

RECURSIVE DigitsValue(_)
DigitsValue(ds) ==
    IF ds = <<>> THEN 0
    ELSE 10 * DigitsValue(SubSeq(ds, 1, Len(ds) - 1)) + (ds[Len(ds)] - 48)

ParseNumber(b, i) ==
    LET neg == At(b, i) = 45
        first == IF neg THEN i + 1 ELSE i
        \* a leading 0 is a number by itself
        last == IF At(b, first) = 48 THEN first + 1 ELSE ScanDigits(b, first)
        n == DigitsValue(SubSeq(b, first, last - 1))
        frac == ScanDigits(b, last + 1)
    IN  IF last = first \/ At(b, last) \in {69, 101} THEN NoParse
        ELSE IF At(b, last) = 46
        THEN IF frac = last + 1 \/ At(b, frac) \in {69, 101} THEN NoParse
             ELSE [ok |-> TRUE, val |-> JFloat(SubSeq(b, i, frac - 1)), next |-> frac]
        ELSE [ok |-> TRUE, val |-> JInt(IF neg THEN 0 - n ELSE n), next |-> last]

ParseLiteral(b, i) ==
    IF Slice(b, i, i + 3) = TrueText
    THEN [ok |-> TRUE, val |-> JBool(TRUE), next |-> i + 4]
    ELSE IF Slice(b, i, i + 4) = FalseText
    THEN [ok |-> TRUE, val |-> JBool(FALSE), next |-> i + 5]
    ELSE IF Slice(b, i, i + 3) = NullText
    THEN [ok |-> TRUE, val |-> JNone, next |-> i + 4]
    ELSE NoParse

RECURSIVE ParseValue(_, _)
RECURSIVE ParseMembers(_, _, _)
\* the members of an object from the key at i on, acc the items read so far
ParseMembers(b, i, acc) ==
    IF At(b, i) # 34 THEN NoParse
    ELSE LET k == ParseString(b, i)
             colon == SkipWs(b, k.next)
             v == ParseValue(b, SkipWs(b, colon + 1))
             after == SkipWs(b, v.next)
             items == DictSet(acc, k.val, v.val)
         IN  IF ~k.ok \/ At(b, colon) # 58 THEN NoParse
             ELSE IF ~v.ok THEN NoParse
             ELSE IF At(b, after) = 125
             THEN [ok |-> TRUE, val |-> JDict(items), next |-> after + 1]
             ELSE IF At(b, after) = 44
             THEN ParseMembers(b, SkipWs(b, after + 1), items)
             ELSE NoParse

ParseValue(b, i) ==
    LET c == At(b, i)
    IN  IF c = 123
        THEN LET j == SkipWs(b, i + 1)
             IN  IF At(b, j) = 125
                 THEN [ok |-> TRUE, val |-> JDict(<<>>), next |-> j + 1]
                 ELSE ParseMembers(b, j, <<>>)
        ELSE IF c = 34 THEN ParseString(b, i)
        ELSE IF c = 45 \/ IsDigit(c) THEN ParseNumber(b, i)
        ELSE ParseLiteral(b, i)

\* json.loads(payload.decode('utf-8')): [exc, ret].  UnicodeDecodeError and
\* JSONDecodeError are both ValueErrors; the bytes above 127 of the model
\* are never part of a UTF-8 sequence.
json_loads(payload) ==
    IF \E i \in 1..Len(payload) : payload[i] > 127
    THEN [exc |-> "ValueError", ret |-> JNone]
    ELSE LET r == ParseValue(payload, SkipWs(payload, 1))
         IN  IF r.ok /\ SkipWs(payload, r.next) = Len(payload) + 1
             THEN [exc |-> "None", ret |-> r.val]
             ELSE [exc |-> "ValueError", ret |-> JNone]

\* struct '>I', '>H': n in width bytes, high byte first
RECURSIVE BytesOf(_, _)
BytesOf(n, width) ==
    IF width = 0 THEN <<>>
    ELSE BytesOf(n \div 256, width - 1) \o <<n % 256>>

RECURSIVE ToInt(_)
ToInt(bs) ==
    IF bs = <<>> THEN 0
    ELSE 256 * ToInt(SubSeq(bs, 1, Len(bs) - 1)) + bs[Len(bs)]

\* the floats 0.0 and -0.0, the two that are false
ZeroFloat == <<0, 0, 0, 0, 0, 0, 0, 0>>
NegZeroFloat == <<128, 0, 0, 0, 0, 0, 0, 0>>

\* time.time() when the clock shows t ms: the double of t / 1000
time_time(t) ==
    CASE t = 1000 -> <<63, 240, 0, 0, 0, 0, 0, 0>>
      [] t = 1500 -> <<63, 248, 0, 0, 0, 0, 0, 0>>
      [] t = 2000 -> <<64, 0, 0, 0, 0, 0, 0, 0>>

\* MessageHeader.to_bytes; the ids of the model are below 2^31 and the
\* payloads below 2^16 bytes, so that struct.pack accepts them
to_bytes(header) ==
    <<header.message_type>> \o BytesOf(header.message_id, 4)
        \o header.timestamp \o BytesOf(header.payload_length, 2)

\* MessageHeader.from_bytes of the 15 bytes data
from_bytes(data) ==
    [message_type |-> data[1],
     message_id |-> ToInt(SubSeq(data, 2, 5)),
     timestamp |-> SubSeq(data, 6, 13),
     payload_length |-> ToInt(SubSeq(data, 14, 15))]

\* the keys of the payload of each message class and the defaults that
\* decode_payload takes for a key that is absent, in the order of the dict
\* that encode_payload builds
PayloadFields(cls) ==
    CASE cls = "HeartbeatMessage" ->
            << <<Chars["status"], JStr(Chars["alive"])>> >>
      [] cls = "ControllerDataMessage" ->
            << <<Chars["xbox"], JDict(<<>>)>>, <<Chars["n64"], JDict(<<>>)>>,
               <<Chars["reverse_mode"], JBool(FALSE)>> >>
      [] cls = "TelemetryMessage" ->
            << <<Chars["sensors"], JDict(<<>>)>>, <<Chars["system"], JDict(<<>>)>> >>
      [] cls = "CommandMessage" ->
            << <<Chars["command"], JStr(<<>>)>>, <<Chars["parameters"], JDict(<<>>)>> >>
      [] cls = "ErrorMessage" ->
            << <<Chars["error_code"], JInt(0)>>, <<Chars["message"], JStr(<<>>)>> >>
      [] cls = "GPSMessage" ->
            << <<<<108, 97, 116>>, JFloat(<<48, 46, 48>>)>>,
               <<<<108, 111, 110>>, JFloat(<<48, 46, 48>>)>>,
               <<<<97, 108, 116>>, JFloat(<<48, 46, 48>>)>>,
               <<<<97, 99, 99>>, JFloat(<<48, 46, 48>>)>> >>

\* the message_type property of each class
message_type(cls) ==
    CASE cls = "HeartbeatMessage" -> HEARTBEAT
      [] cls = "ControllerDataMessage" -> CONTROLLER_DATA
      [] cls = "TelemetryMessage" -> TELEMETRY
      [] cls = "CommandMessage" -> COMMAND
      [] cls = "ErrorMessage" -> ERROR
      [] cls = "GPSMessage" -> GPS_DATA

\* BaseMessage.__init__ at clock t: "message_id or ...", "timestamp or ...";
\* message_id 0 stands for None as well, and int(time.time() * 1000) is
\* below the modulus 0xFFFFFFFF for the clock values of the model
BaseMessageInit(cls, message_id, timestamp, attrs, t) ==
    [cls |-> cls,
     message_id |-> IF message_id # 0 THEN message_id ELSE t,
     timestamp |-> IF timestamp \notin {ZeroFloat, NegZeroFloat}
                   THEN timestamp ELSE time_time(t),
     attrs |-> attrs]

NoMessage == [cls |-> "None", message_id |-> 0, timestamp |-> ZeroFloat, attrs |-> <<>>]

\* encode_payload: the dict of the class's keys and the instance's
\* attributes, dumped (an axis byte is already its int here)
encode_payload(message) ==
    LET fields == PayloadFields(message.cls)
    IN  json_dumps(JDict([i \in 1..Len(fields) |->
                            <<JStr(fields[i][1]), message.attrs[i]>>]))

\* the variant that leaves the attributes at their defaults
decode_payload_defaults(cls, payload) ==
    LET data == json_loads(payload)
        fields == PayloadFields(cls)
    IN  IF data.exc # "None" THEN [exc |-> data.exc, attrs |-> <<>>]
        ELSE IF data.ret.t # "dict" THEN [exc |-> "AttributeError", attrs |-> <<>>]
        ELSE [exc |-> "None", attrs |-> [i \in 1..Len(fields) |-> fields[i][2]]]

\* decode_payload: [exc, attrs]; data.get of something that is no dict
\* raises AttributeError
decode_payload(cls, payload) ==
    LET data == json_loads(payload)
        fields == PayloadFields(cls)
    IN  IF data.exc # "None" THEN [exc |-> data.exc, attrs |-> <<>>]
        ELSE IF data.ret.t # "dict" THEN [exc |-> "AttributeError", attrs |-> <<>>]
        ELSE [exc |-> "None",
              attrs |-> [i \in 1..Len(fields) |->
                            DictGet(data.ret.d, fields[i][1], fields[i][2])]]

\* BaseMessage.encode
encode(message) ==
    LET payload == encode_payload(message)
        header == [message_type |-> message_type(message.cls),
                   message_id |-> message.message_id,
                   timestamp |-> message.timestamp,
                   payload_length |-> Len(payload)]
    IN  to_bytes(header) \o payload

\* BaseMessage.decode of the class cls at clock t: [exc, ret]
decode(cls, data, t) ==
    IF Len(data) < HEADER_SIZE THEN [exc |-> "ValueError", ret |-> NoMessage]
    ELSE LET header == from_bytes(SubSeq(data, 1, HEADER_SIZE))
             payload == Slice(data, HEADER_SIZE + 1, HEADER_SIZE + header.payload_length)
             p == decode_payload(cls, payload)
         IN  IF p.exc # "None" THEN [exc |-> p.exc, ret |-> NoMessage]
             ELSE [exc |-> "None",
                   ret |-> BaseMessageInit(cls, header.message_id, header.timestamp,
                                           p.attrs, t)]

\* MessageCodec.__init__
MessageCodecInit ==
    (HEARTBEAT :> "HeartbeatMessage") @@ (CONTROLLER_DATA :> "ControllerDataMessage")
        @@ (TELEMETRY :> "TelemetryMessage") @@ (COMMAND :> "CommandMessage")
        @@ (ERROR :> "ErrorMessage")

\* the variant that keeps the class a tag already has
register_message_class_keep_first(classes, tag, message_class) ==
    IF tag \in DOMAIN classes THEN classes ELSE Put(classes, tag, message_class)

register_message_class(classes, tag, message_class) == Put(classes, tag, message_class)

encode_message(message) == encode(message)

\* the variant that takes an unknown tag for a heartbeat
decode_message_default_class(classes, data, t) ==
    IF Len(data) < HEADER_SIZE THEN [exc |-> "ValueError", ret |-> NoMessage]
    ELSE LET header == from_bytes(SubSeq(data, 1, HEADER_SIZE))
             message_class == Get(classes, header.message_type, "HeartbeatMessage")
         IN  decode(message_class, data, t)

\* MessageCodec.decode_message at clock t: [exc, ret]
decode_message(classes, data, t) ==
    IF Len(data) < HEADER_SIZE THEN [exc |-> "ValueError", ret |-> NoMessage]
    ELSE LET header == from_bytes(SubSeq(data, 1, HEADER_SIZE))
             message_class == Get(classes, header.message_type, "None")
         IN  IF message_class = "None"
             THEN [exc |-> "ValueError", ret |-> NoMessage]
             ELSE decode(message_class, data, t)

get_supported_types(classes) == DOMAIN classes

\* the items of a dict of ControllerState (int keys, int values; an axis
\* byte is its int, as encode_payload makes it), in the order of the keys
RECURSIVE ItemsOf(_, _)
ItemsOf(d, keys) ==
    IF keys = {} THEN <<>>
    ELSE LET k == CHOOSE x \in keys : \A y \in keys : x <= y
         IN  <<<<JInt(k), JInt(d[k])>>>> \o ItemsOf(d, keys \ {k})

\* ControllerDataMessage(xbox_data=..., n64_data=..., reverse_mode=...) at
\* clock t: no message_id and no timestamp are given, so both are the clock's
ControllerDataMessage(xbox_data, n64_data, rev, t) ==
    BaseMessageInit("ControllerDataMessage", 0, ZeroFloat,
                    <<JDict(ItemsOf(xbox_data, DOMAIN xbox_data)),
                      JDict(ItemsOf(n64_data, DOMAIN n64_data)), JBool(rev)>>, t)

\* CommunicationManager.send_controller_data of a manager constructed with
\* use_legacy_format = False (its codec is a fresh MessageCodec), at clock t
send_controller_data_extensible(c, xbox_values, n64_values, rev, t, ok) ==
    IF ~c.enabled \/ ~c.xbee_device \/ ~c.remote_xbee
    THEN NotSent(c)
    ELSE LET msg_obj == ControllerDataMessage(xbox_values, n64_values, rev, t)
             message == encode_message(msg_obj)
         IN  IF message = c.last_message THEN NotSent(c)
             ELSE TransmitAndCache(c, message, ok)

----------------------------------------------------------------------------
(***************************************************************************)
(* udp_communication.py.  A datagram is the list of its bytes, the UTF-8   *)
(* text of a JSON object with the keys type, data and timestamp.           *)
(***************************************************************************)

\* time.time() as json writes it, when the clock shows t ms
time_text(t) ==
    CASE t = 1000 -> <<49, 46, 48>>
      [] t = 1500 -> <<49, 46, 53>>
      [] t = 2000 -> <<50, 46, 48>>

HasKey(d, k) == \E i \in 1..Len(d) : d[i][1] = JStr(k)

NoUdpMessage == [message_type |-> JNone, data |-> JNone, timestamp |-> JNone]

\* UdpMessage.to_json().encode('utf-8') of _send_message
to_json(message) ==
    json_dumps(JDict(<< <<JStr(Chars["type"]), message.message_type>>,
                        <<JStr(Chars["data"]), message.data>>,
                        <<JStr(Chars["timestamp"]), message.timestamp>> >>))

\* UdpMessage.from_json(data.decode('utf-8')) at clock t: [exc, ret].  An
\* index into something that is no dict raises TypeError, a missing key
\* KeyError; the timestamps of the datagrams of the model are true, so that
\* "timestamp or time.time()" keeps them
from_json(datagram, t) ==
    LET data == json_loads(datagram)
    IN  IF data.exc # "None" THEN [exc |-> "ValueError", ret |-> NoUdpMessage]
        ELSE IF data.ret.t # "dict" THEN [exc |-> "TypeError", ret |-> NoUdpMessage]
        ELSE IF ~HasKey(data.ret.d, Chars["type"]) \/ ~HasKey(data.ret.d, Chars["data"])
        THEN [exc |-> "KeyError", ret |-> NoUdpMessage]
        ELSE [exc |-> "None",
              ret |-> [message_type |-> DictGet(data.ret.d, Chars["type"], JNone),
                       data |-> DictGet(data.ret.d, Chars["data"], JNone),
                       timestamp |-> DictGet(data.ret.d, Chars["timestamp"],
                                             JFloat(time_text(t)))]]

\* UdpCommunicationManager.__init__, the receive thread not started.
\* message_handlers holds the types that have a handler; closed says that
\* stop() has closed the sockets, stopping that stop() waits in join; pc is
\* the position of the receive thread.  last says what the last pass of the
\* thread's loop received and led to, bad_before whether an earlier pass
\* met a datagram that did not decode or an exception.
UdpCommunicationManagerInit ==
    [running |-> FALSE, messages_received |-> 0, last_telemetry |-> JDict(<<>>),
     message_handlers |-> {}, closed |-> FALSE, stopping |-> FALSE,
     pc |-> "not started",
     last |-> [kind |-> "none", data |-> <<>>, exc |-> "None",
               handler_called |-> FALSE, handler_raised |-> FALSE],
     bad_before |-> FALSE]

\* _handle_received_message for a message whose handler returns (hok) or
\* raises: [udp, exc, handler_called, handler_raised].  A type that is a
\* dict cannot be a key: message_handlers.get raises TypeError, outside the
\* try around the handler.
handle_received_message(u, message, hok) ==
    LET stored == IF message.message_type = JStr(Chars["telemetry"])
                  THEN [u EXCEPT !.last_telemetry = message.data] ELSE u
    IN  IF message.message_type.t = "dict"
        THEN [udp |-> stored, exc |-> "TypeError", handler_called |-> FALSE,
              handler_raised |-> FALSE]
        ELSE IF message.message_type \in u.message_handlers
        THEN [udp |-> stored, exc |-> "None", handler_called |-> TRUE,
              handler_raised |-> ~hok]
        ELSE [udp |-> stored, exc |-> "None", handler_called |-> FALSE,
              handler_raised |-> FALSE]

\* the end of a pass: back to the test of the while
Passed(u, kind, data, exc, called, raised) ==
    [u EXCEPT !.pc = "loop",
              !.last = [kind |-> kind, data |-> data, exc |-> exc,
                        handler_called |-> called, handler_raised |-> raised],
              !.bad_before = @ \/ u.last.kind = "undecodable"
                               \/ u.last.exc # "None" \/ u.last.handler_raised]

\* the variant that counts a message once its handler has returned
receive_count_after(u, recv, t, hok) ==
    IF recv.kind = "timeout"
    THEN Passed(u, "timeout", <<>>, "None", FALSE, FALSE)
    ELSE IF recv.kind = "error"
    THEN Passed(u, "error", <<>>, "OSError", FALSE, FALSE)
    ELSE LET m == from_json(recv.data, t)
             h == handle_received_message(u, m.ret, hok)
             counted == IF h.exc = "None" /\ ~h.handler_raised
                        THEN [h.udp EXCEPT !.messages_received = @ + 1]
                        ELSE h.udp
         IN  IF m.exc # "None"
             THEN Passed(u, "undecodable", recv.data, m.exc, FALSE, FALSE)
             ELSE Passed(counted, "message", recv.data, h.exc,
                         h.handler_called, h.handler_raised)

\* one pass of the body of _receive_loop's while: recvfrom gives a
\* datagram, times out (socket.timeout: continue) or raises OSError; every
\* Exception of the body is caught at the end of the pass
receive(u, recv, t, hok) ==
    IF recv.kind = "timeout"
    THEN Passed(u, "timeout", <<>>, "None", FALSE, FALSE)
    ELSE IF recv.kind = "error"
    THEN Passed(u, "error", <<>>, "OSError", FALSE, FALSE)
    ELSE LET m == from_json(recv.data, t)
             counted == [u EXCEPT !.messages_received = @ + 1]
             h == handle_received_message(counted, m.ret, hok)
         IN  IF m.exc # "None"
             THEN Passed(u, "undecodable", recv.data, m.exc, FALSE, FALSE)
             ELSE Passed(h.udp, "message", recv.data, h.exc,
                         h.handler_called, h.handler_raised)

\* start()
start(u) ==
    IF u.running THEN u
    ELSE [u EXCEPT !.running = TRUE, !.pc = "loop"]

\* stop() up to the join of the receive thread
stop(u) ==
    IF ~u.running THEN u
    ELSE [u EXCEPT !.running = FALSE, !.stopping = TRUE]

register_message_handler(u, type) ==
    [u EXCEPT !.message_handlers = @ \cup {type}]

NoCodecCall ==
    [op |-> "none", data |-> <<>>, exc |-> "None", ret |-> NoMessage,
     out |-> <<>>, before |-> MessageCodecInit, failed_before |-> FALSE,
     registered |-> <<>>]

----------------------------------------------------------------------------
(* TkinterDisplay.  A dict that the display holds is named by what it is:  *)
(* "own" for the empty dict of __init__, "xbox" for the dict that          *)
(* ControllerState.values keeps under "xbox", the object that              *)
(* get_controller_values returns.  pc is the place of the UI thread in     *)
(* _insert_controller_values: at_start is the dict as it was when the for  *)
(* loop began, seen the number of items the loop has gone through.         *)

TkinterDisplayInit ==
    [controllers |-> {}, controller_values |-> "own",
     creep_mode |-> FALSE, reverse_mode |-> FALSE,
     pc |-> "idle", at_start |-> EmptyDict, seen |-> 0]

update_controller_display(d, controller_id) ==
    [d EXCEPT !.controllers = @ \cup {controller_id}]

\* self.controller_values = values: the object itself
update_controller_values(d, values_object) ==
    [d EXCEPT !.controller_values = values_object]

update_modes(d, creep, reverse) ==
    [d EXCEPT !.creep_mode = creep, !.reverse_mode = reverse]

\* _update_display_data: the modes, then the object that
\* get_controller_values("xbox") returns (the status label and the
\* telemetry text hold no controller state)
update_display_data(d, vals, creep, reverse) ==
    update_controller_values(update_modes(d, creep, reverse),
                             IF "xbox" \in DOMAIN vals THEN "xbox" ELSE "own")

----------------------------------------------------------------------------
\* _init_xbee_communication gives both managers the device and the remote
\* when communication is enabled; otherwise the heartbeat manager has neither
ServicesInit(enabled) ==
    /\ xbee_enabled = enabled
    /\ comm = CommunicationManagerInit(enabled, enabled)
    /\ hb = HeartbeatManagerInit(enabled, enabled)
    /\ now = StartTime
    /\ timer = StartTime
    /\ current_time = StartTime
    /\ call = NoCall
    /\ wire = NoWire
    /\ message_classes = MessageCodecInit
    /\ codec_call = NoCodecCall
    /\ udp = UdpCommunicationManagerInit
    /\ tester = HeartbeatTesterInit
    /\ display = TkinterDisplayInit

\* the record the handlers work on
Cur ==
    [values |-> values, joysticks |-> joysticks,
     instance_id_values_map |-> instance_id_values_map,
     creep_mode |-> creep_mode, reverse_mode |-> reverse_mode,
     quit |-> quit, raised |-> FALSE]

\* One event of the batch pygame.event.get() returned, inside control_loop's
\* try: an exception leaves the while loop and its handler sets quit.
ProcessEvent(e) ==
    /\ pc = "events"
    /\ LET r == process_controller_event(Cur, e)
       IN  /\ values' = r.values
           /\ joysticks' = r.joysticks
           /\ instance_id_values_map' = r.instance_id_values_map
           /\ creep_mode' = r.creep_mode
           /\ reverse_mode' = r.reverse_mode
           /\ quit' = (r.quit \/ r.raised)
           /\ pc' = IF r.raised THEN "finally" ELSE "events"
           /\ display' = IF e.type = "JOYDEVICEADDED" /\ ~r.raised
                         THEN update_controller_display(display, e.instance_id)
                         ELSE display
    /\ UNCHANGED <<codecVars, udp, tester, xbee_enabled, timer, current_time, comm, hb, now, call, wire>>

----------------------------------------------------------------------------
(* Input events *)

MaxId == 1
Ids == 0..MaxId

AddedEvents(ids, names) ==
    [type : {"JOYDEVICEADDED"}, instance_id : ids, name : names]
RemovedEvents(ids) == [type : {"JOYDEVICEREMOVED"}, instance_id : ids]
AxisEvents(ids, axes, raws) ==
    [type : {"JOYAXISMOTION"}, instance_id : ids, axis : axes, value : raws]
ButtonEvents(ids, buttons) ==
    [type : {"JOYBUTTONDOWN", "JOYBUTTONUP"}, instance_id : ids, joy : Ids,
     button : buttons, pressed : {0, 1}]
HatEvents(ids, hats) ==
    [type : {"JOYHATMOTION"}, instance_id : ids, value : hats]
QuitEvents == [type : {"QUIT"}]

\* SpecInput: the event handlers alone.  Device 0 is the drive controller
\* (or a device of neither kind), device 1 the auxiliary one.
InputRaws == {-150, 50}
InputEvents ==
    AddedEvents({0}, {"xbox", "other"}) \cup AddedEvents({1}, {"dinput"})
    \cup RemovedEvents(Ids)
    \cup AxisEvents(Ids, {AXIS_LY}, {50}) \cup AxisEvents(Ids, {AXIS_LT}, InputRaws)
    \cup ButtonEvents({0}, {SELECT, START})
    \cup HatEvents(Ids, {JOYPAD_UP, JOYPAD_DOWN, JOYPAD_LEFT})
    \cup QuitEvents

InitInput ==
    /\ ControllerManagerInit
    /\ quit = FALSE
    /\ pc = "events"
    /\ ServicesInit(TRUE)

NextInput == \E e \in InputEvents : ProcessEvent(e)

SpecInput == InitInput /\ [][NextInput]_vars

\* SpecAxis: the axis transform over the whole raw range.  It starts from the
\* states in which the drive controller is connected and any of the two
\* modifier buttons is held, and takes axis and hat events of that device.
RawMax == 120
AxisRaws ==
    {r \in (-RawMax)..RawMax :
        r % 8 = 0 \/ Abs(r) \in {9, 10, 11, 50, 100, 101, RawMax}}
AxisSpecEvents ==
    AxisEvents({0}, {AXIS_LY}, AxisRaws) \cup HatEvents({0}, {JOYPAD_UP, JOYPAD_DOWN})

InitAxis ==
    /\ \E sel \in {OFF, ON}, sta \in {OFF, ON} :
          values = update_value(update_value(ControllerStateInit,
                                             "xbox", SELECT + 6, sel),
                                "xbox", START + 6, sta)
    /\ joysticks = {0}
    /\ instance_id_values_map = Put(EmptyDict, 0, "xbox")
    /\ creep_mode = FALSE
    /\ reverse_mode = FALSE
    /\ quit = FALSE
    /\ pc = "events"
    /\ ServicesInit(TRUE)

NextAxis == \E e \in AxisSpecEvents : ProcessEvent(e)

SpecAxis == InitAxis /\ [][NextAxis]_vars

----------------------------------------------------------------------------
(* SpecComm: the CommunicationManager called from outside, any operation   *)
(* after any other, the transport accepting or raising at each send.        *)

\* the count of quit frames is kept up to this many
MaxQuitFrames == 2

AtMost(n, cap) == IF n > cap THEN cap ELSE n

\* what the transport has seen after one more operation
Handed(w, sent) ==
    LET quits == {i \in 1..Len(sent) : sent[i].by = "quit"}
        others == {i \in 1..Len(sent) : sent[i].by # "quit"}
    IN  [w EXCEPT
           !.quit_frames = AtMost(@ + Cardinality(quits), MaxQuitFrames),
           !.after_quit = @ \/ (others # {} /\ w.quit_frames > 0),
           !.after_close = @ \/ (sent # <<>> /\ w.closed)]

CommXbox ==
    {XboxDefaults, Put(XboxDefaults, AXIS_LY, 150),
     Put(XboxDefaults, XBOX_A + 6, ON), Put(XboxDefaults, AXIS_LY, 256)}
CommN64 == {N64Defaults, Put(N64Defaults, N64_A, ON)}
CompactData == {<<QUIT_MESSAGE>>, <<176, 7>>, <<256>>}

\* r: what the operation returned; kind marks its frames
CommCalled(op, args, ok, r, kind) ==
    /\ comm' = r.comm
    /\ call' = [op |-> op, args |-> args, ok |-> ok, ret |-> r.ret,
                raised |-> r.raised, sent |-> Tag(r.sent, kind),
                before_message |-> comm.last_message,
                before_time |-> hb.last_heartbeat_time, at |-> now]
    /\ wire' = Handed(wire, Tag(r.sent, kind))
    /\ UNCHANGED <<codecVars, udp, tester, display, cmVars, loopVars, hb, now>>

CallSendControllerData ==
    \E xv \in CommXbox, nv \in CommN64, rev \in BOOLEAN, ok \in BOOLEAN :
        CommCalled("send_controller_data",
                   [xbox |-> xv, n64 |-> nv, reverse_mode |-> rev], ok,
                   send_controller_data(comm, xv, nv, rev, ok), "controller_data")

CallSendCompactMessage ==
    \E data \in CompactData, skip \in BOOLEAN, ok \in BOOLEAN :
        CommCalled("send_compact_message",
                   [data |-> data, skip_duplicate_check |-> skip], ok,
                   send_compact_message(comm, data, skip, ok), "compact")

CallSendQuitMessage ==
    \E ok \in BOOLEAN :
        CommCalled("send_quit_message", <<>>, ok, send_quit_message(comm, ok), "quit")

CallCommEnable ==
    CommCalled("enable", <<>>, TRUE,
               [comm |-> comm_enable(comm), ret |-> FALSE, raised |-> FALSE,
                sent |-> <<>>], "none")

CallCommDisable ==
    CommCalled("disable", <<>>, TRUE,
               [comm |-> comm_disable(comm), ret |-> FALSE, raised |-> FALSE,
                sent |-> <<>>], "none")

InitComm ==
    /\ ControllerManagerInit
    /\ quit = FALSE
    /\ pc = "events"
    /\ xbee_enabled = TRUE
    /\ \E device \in BOOLEAN, remote \in BOOLEAN :
          /\ comm = CommunicationManagerInit(device, remote)
          /\ hb = HeartbeatManagerInit(device, remote)
    /\ now = StartTime
    /\ timer = StartTime
    /\ current_time = StartTime
    /\ call = NoCall
    /\ wire = NoWire
    /\ message_classes = MessageCodecInit
    /\ codec_call = NoCodecCall
    /\ udp = UdpCommunicationManagerInit
    /\ tester = HeartbeatTesterInit
    /\ display = TkinterDisplayInit

NextComm ==
    \/ CallSendControllerData
    \/ CallSendCompactMessage
    \/ CallSendQuitMessage
    \/ CallCommEnable
    \/ CallCommDisable

SpecComm == InitComm /\ [][NextComm]_vars

----------------------------------------------------------------------------
(* SpecHB: the HeartbeatManager polled from outside while the clock runs.  *)
(* The clock is read at the instants of HbTimes: polls 50, 100 and 110 ms  *)
(* after the first, then every 110 ms, then after the two longer intervals. *)

HbTimes == {StartTime, 1050, 1100, 1110, 1220, 1330, 1440, 1600, 2100}
HbIntervals == {ONE_HUNDRED_MS, FIVE_HUNDRED_MS, HEARTBEAT_INTERVAL}

\* the clock moves on to a later instant of T
Advance(T) ==
    /\ \E t \in T : t > now /\ now' = t
    /\ UNCHANGED <<codecVars, udp, tester, display, cmVars, loopVars, comm, hb, call, wire>>

HbCalled(op, args, ok, r) ==
    /\ hb' = r.hb
    /\ call' = [op |-> op, args |-> args, ok |-> ok, ret |-> r.ret,
                raised |-> r.raised, sent |-> Tag(r.sent, "heartbeat"),
                before_message |-> comm.last_message,
                before_time |-> hb.last_heartbeat_time, at |-> now]
    /\ wire' = Handed(wire, Tag(r.sent, "heartbeat"))
    /\ UNCHANGED <<codecVars, udp, tester, display, cmVars, loopVars, comm, now>>

CallHbUpdate ==
    \E ok \in BOOLEAN : HbCalled("update", <<>>, ok, heartbeat_update(hb, now, ok))

CallHbSendHeartbeat ==
    \E ok \in BOOLEAN :
        HbCalled("send_heartbeat", <<>>, ok, send_heartbeat(hb, now, ok))

CallHbSetInterval ==
    \E interval \in HbIntervals :
        HbCalled("set_interval", <<interval>>, TRUE,
                 HbNotSent(set_interval(hb, interval)))

CallHbEnable == HbCalled("enable", <<>>, TRUE, HbNotSent(hb_enable(hb)))

CallHbDisable == HbCalled("disable", <<>>, TRUE, HbNotSent(hb_disable(hb)))

InitHB == InitComm

NextHB ==
    \/ CallHbUpdate
    \/ CallHbSendHeartbeat
    \/ CallHbSetInterval
    \/ CallHbEnable
    \/ CallHbDisable
    \/ Advance(HbTimes)

SpecHB == InitHB /\ [][NextHB]_vars

----------------------------------------------------------------------------
(* SpecSends: the sends of the CommunicationManager and of the              *)
(* HeartbeatManager in any order, on one transport, at one instant.         *)

\* the timestamps given to CommunicationManager.send_heartbeat: none, one of
\* two bytes and one beyond two bytes
HeartbeatStamps == {0, 1234, 65536 + 5}

CallCommSendHeartbeat ==
    \E timestamp_ms \in HeartbeatStamps, ok \in BOOLEAN :
        CommCalled("CommunicationManager.send_heartbeat", <<timestamp_ms>>, ok,
                   comm_send_heartbeat(comm, timestamp_ms, now, ok),
                   "comm_heartbeat")

InitSends == InitComm

NextSends ==
    \/ CallSendControllerData
    \/ CallSendCompactMessage
    \/ CallSendQuitMessage
    \/ CallCommSendHeartbeat
    \/ CallCommEnable
    \/ CallCommDisable
    \/ CallHbSendHeartbeat
    \/ CallHbUpdate

SpecSends == InitSends /\ [][NextSends]_vars

----------------------------------------------------------------------------
(* SpecBeat: the HeartbeatTester at instants whose Unix seconds fill one    *)
(* byte, two bytes and more than two: 1, 258, 65535, 65536, 65794 and       *)
(* 2147483 s.  It builds and parses the manager's message and parses the    *)
(* frames a receiver may get: that message, cut short, under another first  *)
(* byte, and with a byte after it.                                          *)

MaxBeats == 2

BeatTimes == {1000, 258000, 65535000, 65536000, 65794000, 2147483000}

BeatFrames(t) ==
    LET message == create_heartbeat_message(t)
    IN  {message, <<>>, SubSeq(message, 1, 1), SubSeq(message, 1, 2),
         <<171>> \o Tail(message), <<HEARTBEAT_MESSAGE, 255, 254>>,
         message \o <<HEARTBEAT_MESSAGE>>}

TesterCalled(op, message, r) ==
    /\ Len(tester.received_heartbeats) < MaxBeats
    /\ tester' = [r.tester EXCEPT !.last = [op |-> op, message |-> message,
                                            none |-> r.none, ret |-> r.ret,
                                            at |-> now]]
    /\ UNCHANGED <<codecVars, udp, display, cmVars, loopVars, comm, hb, now, call, wire>>

CallTestHeartbeatCreation ==
    TesterCalled("test_heartbeat_creation", create_heartbeat_message(now),
                 test_heartbeat_creation(tester, now))

CallSimulateReceiveHeartbeat ==
    \E message \in BeatFrames(now) :
        TesterCalled("simulate_receive_heartbeat", message,
                     simulate_receive_heartbeat(tester, message, now))

InitBeat ==
    /\ ControllerManagerInit
    /\ quit = FALSE
    /\ pc = "events"
    /\ xbee_enabled = TRUE
    /\ comm = CommunicationManagerInit(TRUE, TRUE)
    /\ hb = HeartbeatManagerInit(TRUE, TRUE)
    /\ now \in BeatTimes
    /\ timer = now
    /\ current_time = now
    /\ call = NoCall
    /\ wire = NoWire
    /\ message_classes = MessageCodecInit
    /\ codec_call = NoCodecCall
    /\ udp = UdpCommunicationManagerInit
    /\ tester = HeartbeatTesterInit
    /\ display = TkinterDisplayInit

NextBeat ==
    \/ CallTestHeartbeatCreation
    \/ CallSimulateReceiveHeartbeat
    \/ Advance(BeatTimes)

SpecBeat == InitBeat /\ [][NextBeat]_vars

----------------------------------------------------------------------------
(* SpecCadence: heartbeats by polling.  Either a caller polls update() of   *)
(* a manager whose interval is one of HbIntervals, reading the clock 50 or  *)
(* 100 ms after the poll before, or the tester runs test_interval_timing    *)
(* over 3 seconds, its sleep of 100 ms taking up to 20 ms longer.           *)

test_duration_seconds == 3000
PollGaps == {50, ONE_HUNDRED_MS}
SleepTimes == {ONE_HUNDRED_MS, ONE_HUNDRED_MS + 20}
MaxPollTime == 4000

\* update() polled by a caller that has not polled at this instant
PollUpdate ==
    /\ tester.pc = "idle"
    /\ call.op = "none" \/ call.at # now
    /\ CallHbUpdate

\* the caller waits for its next poll
PollWait ==
    /\ call.op = "update" /\ call.at = now
    /\ \E g \in PollGaps : now + g <= MaxPollTime /\ now' = now + g
    /\ UNCHANGED <<codecVars, udp, tester, display, cmVars, loopVars, comm, hb, call, wire>>

TimingUnchanged ==
    UNCHANGED <<codecVars, udp, display, cmVars, loopVars, comm, hb, call, wire>>

\* test_interval_timing(3) begins
TimingStart ==
    /\ tester.pc = "idle" /\ call.op = "none"
    /\ tester' = test_interval_timing_start(tester, now)
    /\ UNCHANGED now
    /\ TimingUnchanged

\* one pass of the while loop: the test, the body and time.sleep(0.1)
TimingPass ==
    /\ tester.pc = "while"
    /\ now - tester.start_time < test_duration_seconds
    /\ tester' = test_interval_timing_body(tester, now)
    /\ \E d \in SleepTimes : now' = now + d
    /\ TimingUnchanged

\* the while loop ends and the count is printed
TimingEnd ==
    /\ tester.pc = "while"
    /\ ~(now - tester.start_time < test_duration_seconds)
    /\ tester' = [tester EXCEPT !.pc = "done"]
    /\ UNCHANGED now
    /\ TimingUnchanged

InitCadence ==
    /\ ControllerManagerInit
    /\ quit = FALSE
    /\ pc = "events"
    /\ xbee_enabled = TRUE
    /\ comm = CommunicationManagerInit(TRUE, TRUE)
    /\ \E interval \in HbIntervals :
          hb = set_interval(HeartbeatManagerInit(TRUE, TRUE), interval)
    /\ now = StartTime
    /\ timer = now
    /\ current_time = now
    /\ call = NoCall
    /\ wire = NoWire
    /\ message_classes = MessageCodecInit
    /\ codec_call = NoCodecCall
    /\ udp = UdpCommunicationManagerInit
    /\ tester = HeartbeatTesterInit
    /\ display = TkinterDisplayInit

NextCadence ==
    \/ PollUpdate
    \/ PollWait
    \/ TimingStart
    \/ TimingPass
    \/ TimingEnd

SpecCadence == InitCadence /\ [][NextCadence]_vars

----------------------------------------------------------------------------
(* Spec: the control loop.  pc is the place in control_loop:                *)
(*   "loop"    the while test and the timer test                            *)
(*   "events"  inside _process_controller_events, between two events        *)
(*   "update"  before update_info                                           *)
(*   "sleep"   before time.sleep                                            *)
(*   "finally" before send_quit_message, "cleanup" before cleanup           *)
(*   "done"    the thread has ended                                         *)

\* the instants at which the loop reads the clock: before the first period
\* has passed, at one and two periods, and after a heartbeat interval
LoopTimes == {StartTime, 1020, 1040, 1080, 2040, 2100}

LoopEvents ==
    AddedEvents({0}, {"xbox"}) \cup RemovedEvents({0})
    \cup AxisEvents({0}, {AXIS_LY}, {50})
    \cup ButtonEvents({0}, {HOME})
    \cup QuitEvents

\* the variant that goes through a tick on every pass of the loop
LoopTest_every_pass ==
    /\ pc = "loop"
    /\ IF quit
       THEN pc' = "finally" /\ UNCHANGED current_time
       ELSE current_time' = now /\ pc' = "events"
    /\ UNCHANGED <<codecVars, udp, tester, display, cmVars, quit, xbee_enabled, timer, comm, hb, now, call, wire>>

\* while not quit: current_time = time_ns(); if current_time >= timer + frequency
LoopTest ==
    /\ pc = "loop"
    /\ IF quit
       THEN pc' = "finally" /\ UNCHANGED current_time
       ELSE /\ current_time' = now
            /\ pc' = IF now >= timer + UPDATE_FREQUENCY THEN "events" ELSE "sleep"
    /\ UNCHANGED <<codecVars, udp, tester, display, cmVars, quit, xbee_enabled, timer, comm, hb, now, call, wire>>

\* pygame.event.get() has no further event
EventsDone ==
    /\ pc = "events"
    /\ pc' = "update"
    /\ UNCHANGED <<codecVars, udp, tester, display, cmVars, quit, xbee_enabled, timer, current_time, comm, hb,
                   now, call, wire>>

\* update_info, the display update and the timer reset
UpdateInfo ==
    /\ pc = "update"
    /\ \E okHb \in BOOLEAN, okData \in BOOLEAN :
          LET r == update_info(xbee_enabled, hb, comm, values, reverse_mode,
                               now, okHb, okData)
          IN  /\ hb' = r.hb
              /\ comm' = r.comm
              /\ call' = [op |-> "update_info", args |-> <<>>,
                          ok |-> (okHb /\ okData), ret |-> FALSE,
                          raised |-> r.raised, sent |-> r.sent,
                          before_message |-> comm.last_message,
                          before_time |-> hb.last_heartbeat_time, at |-> now]
              /\ wire' = Handed(wire, r.sent)
              /\ quit' = (quit \/ r.raised)
              /\ pc' = IF r.raised THEN "finally" ELSE "sleep"
              /\ timer' = IF r.raised THEN timer ELSE current_time
              /\ display' = IF r.raised THEN display
                            ELSE update_display_data(display, values, creep_mode,
                                                     reverse_mode)
    /\ UNCHANGED <<codecVars, udp, tester, cmVars, xbee_enabled, current_time, now>>

\* time.sleep(0.001)
Sleep ==
    /\ pc = "sleep"
    /\ pc' = "loop"
    /\ UNCHANGED <<codecVars, udp, tester, display, cmVars, quit, xbee_enabled, timer, current_time, comm, hb,
                   now, call, wire>>

\* the clock moves on while the loop sleeps or works through a tick
Tick ==
    /\ pc \in {"sleep", "update"}
    /\ Advance(LoopTimes)

\* main: KeyboardInterrupt while the display runs
MainInterrupt ==
    /\ ~quit
    /\ pc # "done"
    /\ quit' = TRUE
    /\ UNCHANGED <<codecVars, udp, tester, display, cmVars, pc, xbee_enabled, timer, current_time, comm, hb,
                   now, call, wire>>

\* the variant that goes back into the loop after the quit frame
SendQuit_resume ==
    /\ pc = "finally"
    /\ \E ok \in BOOLEAN :
          LET r == xbee_send_quit_message(xbee_enabled, comm, ok)
          IN  /\ comm' = r.comm
              /\ call' = [op |-> "send_quit_message", args |-> <<>>, ok |-> ok,
                          ret |-> r.ret, raised |-> r.raised,
                          sent |-> Tag(r.sent, "quit"),
                          before_message |-> comm.last_message,
                          before_time |-> hb.last_heartbeat_time, at |-> now]
              /\ wire' = Handed(wire, Tag(r.sent, "quit"))
              /\ pc' = IF wire.quit_frames = 0 THEN "update" ELSE "cleanup"
    /\ UNCHANGED <<codecVars, udp, tester, display, cmVars, quit, xbee_enabled, timer, current_time, hb, now>>

\* the variant in which a refused quit frame ends the finally block
SendQuit_leave ==
    /\ pc = "finally"
    /\ \E ok \in BOOLEAN :
          LET r == xbee_send_quit_message(xbee_enabled, comm, ok)
          IN  /\ comm' = r.comm
              /\ call' = [op |-> "send_quit_message", args |-> <<>>, ok |-> ok,
                          ret |-> r.ret, raised |-> r.raised,
                          sent |-> Tag(r.sent, "quit"),
                          before_message |-> comm.last_message,
                          before_time |-> hb.last_heartbeat_time, at |-> now]
              /\ wire' = Handed(wire, Tag(r.sent, "quit"))
              /\ pc' = IF r.sent # <<>> /\ ~r.ret THEN "done" ELSE "cleanup"
    /\ UNCHANGED <<codecVars, udp, tester, display, cmVars, quit, xbee_enabled, timer, current_time, hb, now>>

\* finally: xbee_control.send_quit_message()
SendQuit ==
    /\ pc = "finally"
    /\ \E ok \in BOOLEAN :
          LET r == xbee_send_quit_message(xbee_enabled, comm, ok)
          IN  /\ comm' = r.comm
              /\ call' = [op |-> "send_quit_message", args |-> <<>>, ok |-> ok,
                          ret |-> r.ret, raised |-> r.raised,
                          sent |-> Tag(r.sent, "quit"),
                          before_message |-> comm.last_message,
                          before_time |-> hb.last_heartbeat_time, at |-> now]
              /\ wire' = Handed(wire, Tag(r.sent, "quit"))
              /\ pc' = "cleanup"
    /\ UNCHANGED <<codecVars, udp, tester, display, cmVars, quit, xbee_enabled, timer, current_time, hb, now>>

\* finally: xbee_control.cleanup() closes the device when communication is on
Cleanup ==
    /\ pc = "cleanup"
    /\ wire' = [wire EXCEPT !.closed = xbee_enabled]
    /\ pc' = "done"
    /\ UNCHANGED <<codecVars, udp, tester, display, cmVars, quit, xbee_enabled, timer, current_time, comm, hb,
                   now, call>>

Init ==
    /\ ControllerManagerInit
    /\ quit = FALSE
    /\ pc = "loop"
    /\ \E enabled \in BOOLEAN : ServicesInit(enabled)

Next ==
    \/ LoopTest
    \/ \E e \in LoopEvents : ProcessEvent(e)
    \/ EventsDone
    \/ UpdateInfo
    \/ Sleep
    \/ Tick
    \/ MainInterrupt
    \/ SendQuit
    \/ Cleanup

Spec == Init /\ [][Next]_vars

----------------------------------------------------------------------------
(* SpecLive: the control loop with the thread's progress.  The steps are    *)
(* those of Spec; the events are the ones that end the loop and the clock   *)
(* is read before and after the first period.                               *)

ShutdownTimes == {StartTime, StartTime + UPDATE_FREQUENCY}

ShutdownEvents ==
    AddedEvents({0}, {"xbox"}) \cup RemovedEvents({0})
    \cup ButtonEvents({0}, {HOME})
    \cup QuitEvents

TickShutdown ==
    /\ pc \in {"sleep", "update"}
    /\ Advance(ShutdownTimes)

\* a step of the control-loop thread other than the handling of one more event
LoopStep ==
    LoopTest \/ EventsDone \/ UpdateInfo \/ Sleep \/ SendQuit \/ Cleanup

NextLive ==
    \/ LoopTest
    \/ \E e \in ShutdownEvents : ProcessEvent(e)
    \/ EventsDone
    \/ UpdateInfo
    \/ Sleep
    \/ TickShutdown
    \/ MainInterrupt
    \/ SendQuit
    \/ Cleanup

\* the control-loop thread goes on until it has ended, and pygame.event.get()
\* returns a list that ends
SpecLive == Init /\ [][NextLive]_vars /\ WF_vars(LoopStep)

----------------------------------------------------------------------------
(* SpecUnpacked: the control loop over three periods under the inputs the   *)
(* frame leaves out (the LX stick, START, HOME, the hat that sets           *)
(* creep_mode) and, next to them, the LY stick, which the frame holds.      *)

UnpackedTimes == {StartTime + k * UPDATE_FREQUENCY : k \in 0..2}

UnpackedEvents ==
    AddedEvents({0}, {"xbox"})
    \cup AxisEvents({0}, {AXIS_LX, AXIS_LY}, {RawMax})
    \cup ButtonEvents({0}, {START, HOME})
    \cup HatEvents({0}, {JOYPAD_UP, JOYPAD_DOWN})

TickUnpacked ==
    /\ pc \in {"sleep", "update"}
    /\ Advance(UnpackedTimes)

NextUnpacked ==
    \/ LoopTest
    \/ \E e \in UnpackedEvents : ProcessEvent(e)
    \/ EventsDone
    \/ UpdateInfo
    \/ Sleep
    \/ TickUnpacked
    \/ MainInterrupt
    \/ SendQuit
    \/ Cleanup

SpecUnpacked == Init /\ [][NextUnpacked]_vars

----------------------------------------------------------------------------
(* SpecFrame: the MessageFormatter applied to mappings, whole, partial and  *)
(* empty.  values and reverse_mode hold the arguments; the formatter is     *)
(* called on them and the parser on the frame it gave.                      *)

\* the field values tried: the 2-bit range and the first value beyond it
MaxFieldValue == 4

\* an axis byte for each field value, so that LY and RY differ when a # b
AxisByteOf(v) ==
    IF v = 0 THEN 0 ELSE IF v = 1 THEN 100 ELSE IF v = 2 THEN 150
    ELSE IF v = 3 THEN 255 ELSE 30

\* a whole xbox mapping: LY from a, RY from b, the buttons and triggers
\* taking a and b in turn
XboxOf(a, b) ==
    [k \in DOMAIN XboxDefaults |->
        IF k = AXIS_LY THEN AxisByteOf(a)
        ELSE IF k = AXIS_RY THEN AxisByteOf(b)
        ELSE IF k \in {AXIS_LX, AXIS_RX} THEN NEUTRAL_HEX
        ELSE IF k % 2 = 0 THEN a ELSE b]

N64Of(a, b) == [k \in DOMAIN N64Defaults |-> IF k % 2 = 0 THEN a ELSE b]

Restrict(d, keys) == [k \in keys |-> d[k]]

\* all keys, none, all but one, one alone
KeySubsets(keys) ==
    {keys, {}} \cup {keys \ {k} : k \in keys} \cup {{k} : k \in keys}

XboxMappings ==
    {Restrict(XboxOf(a, b), K) :
        a \in 0..MaxFieldValue, b \in 0..MaxFieldValue,
        K \in KeySubsets(DOMAIN XboxDefaults)}

N64Mappings ==
    {Restrict(N64Of(a, b), K) :
        a \in 0..MaxFieldValue, b \in 0..MaxFieldValue,
        K \in KeySubsets(DOMAIN N64Defaults)}

\* every item a byte string of length 1 (an axis) or an int (a field)
FormatterCalled(op, args, r) ==
    /\ call' = [NoCall EXCEPT !.op = op, !.args = args, !.ret = r.ret,
                              !.raised = r.raised]
    /\ UNCHANGED <<codecVars, udp, tester, display, cmVars, loopVars, comm, hb, now, wire>>

\* bytearray(data) raises ValueError when an item is not in range(256)
CallCreateCombinedMessage ==
    LET data == create_combined_message(values["xbox"], values["n64"], reverse_mode)
    IN  FormatterCalled("create_combined_message", <<>>,
                        [ret |-> data, raised |-> ~IsByteList(data)])

\* the frame just made, given to the parser
CallParseCombinedMessage ==
    /\ call.op = "create_combined_message"
    /\ ~call.raised
    /\ FormatterCalled("parse_combined_message", call.ret,
                       parse_combined_message(call.ret))

\* what may arrive of a frame sent: the frame, a part of it, the frame with
\* bytes after it, the frame with byte 0 or byte 5 changed
ReceivedFrames(frame) ==
    {frame, <<>>, SubSeq(frame, 1, 9), frame \o <<0>>, frame \o frame,
     [frame EXCEPT ![1] = 0], [frame EXCEPT ![6] = QUIT_MESSAGE]}

\* parse_combined_message given a frame as received
CallParseReceivedFrame ==
    /\ call.op = "create_combined_message"
    /\ ~call.raised
    /\ \E data \in ReceivedFrames(call.ret) :
          FormatterCalled("parse_combined_message_received", data,
                          parse_combined_message(data))

InitFrame ==
    /\ \/ values \in [xbox : XboxMappings, n64 : {N64Defaults, EmptyDict}]
       \/ values \in [xbox : {XboxDefaults, EmptyDict}, n64 : N64Mappings]
    /\ reverse_mode \in BOOLEAN
    /\ joysticks = {}
    /\ instance_id_values_map = EmptyDict
    /\ creep_mode = FALSE
    /\ quit = FALSE
    /\ pc = "events"
    /\ ServicesInit(TRUE)

NextFrame ==
    \/ CallCreateCombinedMessage
    \/ CallParseCombinedMessage
    \/ CallParseReceivedFrame

SpecFrame == InitFrame /\ [][NextFrame]_vars

----------------------------------------------------------------------------
(* SpecButtons: the event handlers under button, trigger and hat events of  *)
(* both profiles, with the buttons that end the session among them.         *)

ButtonsEvents ==
    AddedEvents({0}, {"xbox", "other"}) \cup AddedEvents({1}, {"dinput"})
    \cup RemovedEvents({1})
    \cup ButtonEvents(Ids, {XBOX_A, HOME, N64_START})
    \cup AxisEvents(Ids, {AXIS_LT}, InputRaws)
    \cup HatEvents(Ids, {JOYPAD_UP, JOYPAD_LEFT})

InitButtons == InitInput

NextButtons == \E e \in ButtonsEvents : ProcessEvent(e)

SpecButtons == InitButtons /\ [][NextButtons]_vars

----------------------------------------------------------------------------
\* SpecFields: the inputs that reach the bytes of the legacy frame: both
\* sticks of the drive controller pushed beyond either end, a trigger, the
\* buttons of the lowest and the highest field of a packed byte, SELECT and
\* the hat for reverse_mode, and the Z button and the hat of the auxiliary
\* controller.
FieldEvents ==
    AddedEvents({0}, {"xbox"}) \cup AddedEvents({1}, {"dinput"})
    \cup AxisEvents({0}, {AXIS_LY, AXIS_RY}, {-RawMax, RawMax})
    \cup AxisEvents({0}, {AXIS_RT}, InputRaws)
    \cup ButtonEvents({0}, {XBOX_A, XBOX_Y, SELECT})
    \cup ButtonEvents({1}, {N64_Z})
    \cup HatEvents({0}, {JOYPAD_UP, JOYPAD_DOWN})
    \cup HatEvents({1}, {<<-1, 1>>, <<0, 0>>})

InitFields == InitInput

NextFields == \E e \in FieldEvents : ProcessEvent(e)

SpecFields == InitFields /\ [][NextFields]_vars

----------------------------------------------------------------------------
\* SpecModes: the drive controller alone: both sticks, one pushed beyond the
\* end and one half way, the two modifier buttons and the hat up and down.
ModeEvents ==
    AddedEvents({0}, {"xbox"})
    \cup AxisEvents({0}, {AXIS_LY, AXIS_RY}, {-RawMax, 50})
    \cup ButtonEvents({0}, {SELECT, START})
    \cup HatEvents({0}, {JOYPAD_UP, JOYPAD_DOWN})

InitModes == InitInput

NextModes == \E e \in ModeEvents : ProcessEvent(e)

SpecModes == InitModes /\ [][NextModes]_vars

----------------------------------------------------------------------------
\* SpecHat: the hats of both devices in every position, with the SELECT
\* button of the drive controller and the A button of the auxiliary one.
HatValues == {<<x, y>> : x \in {-1, 0, 1}, y \in {-1, 0, 1}}

HatSpecEvents ==
    AddedEvents({0}, {"xbox"}) \cup AddedEvents({1}, {"dinput"})
    \cup RemovedEvents({1})
    \cup HatEvents(Ids, HatValues)
    \cup ButtonEvents({0}, {SELECT}) \cup ButtonEvents({1}, {N64_A})

InitHat == InitInput

NextHat == \E e \in HatSpecEvents : ProcessEvent(e)

SpecHat == InitHat /\ [][NextHat]_vars

----------------------------------------------------------------------------
\* SpecDpad: the auxiliary controller alone: its hat in every position and
\* its buttons of the lowest index, of the index that ends the session and
\* of the highest index below 14.
MaxN64Button == 13

DpadEvents ==
    AddedEvents({1}, {"dinput"})
    \cup HatEvents({1}, HatValues)
    \cup ButtonEvents({1}, {C_DOWN, N64_START, MaxN64Button})

InitDpad == InitInput

NextDpad == \E e \in DpadEvents : ProcessEvent(e)

SpecDpad == InitDpad /\ [][NextDpad]_vars

----------------------------------------------------------------------------
(* SpecDisplay: the control-loop thread applies events and hands the state  *)
(* to the display, as a tick does, while the UI thread goes through         *)
(* _insert_controller_values.  The HOME button's key is not among the       *)
(* defaults of ControllerState.                                             *)

DisplayEvents ==
    AddedEvents({0}, {"xbox"})
    \cup AxisEvents({0}, {AXIS_LY}, {50})
    \cup ButtonEvents({0}, {XBOX_A, HOME})

\* the dict that self.controller_values is
Held ==
    IF display.controller_values \in DOMAIN values
    THEN values[display.controller_values]
    ELSE EmptyDict

DisplayUnchanged ==
    UNCHANGED <<codecVars, udp, tester, cmVars, loopVars, comm, hb, now, call, wire>>

\* _update_display_data of a tick
CallUpdateDisplayData ==
    /\ pc = "events"
    /\ display' = update_display_data(display, values, creep_mode, reverse_mode)
    /\ DisplayUnchanged

\* _insert_controller_info reaches the for loop of
\* _insert_controller_values: a controller is shown and the dict is not empty
UiInsertBegin ==
    /\ display.pc \in {"idle", "raised"}
    /\ display.controllers # {}
    /\ Held # EmptyDict
    /\ display' = [display EXCEPT !.pc = "for", !.at_start = Held, !.seen = 0]
    /\ DisplayUnchanged

\* the for loop takes its next item: RuntimeError when the size of the
\* dict is no longer the one at the start, the end of the loop after the
\* last item
UiInsertNext ==
    /\ display.pc = "for"
    /\ display' =
          IF Cardinality(DOMAIN Held) # Cardinality(DOMAIN display.at_start)
          THEN [display EXCEPT !.pc = "raised"]
          ELSE IF display.seen = Cardinality(DOMAIN Held)
          THEN [display EXCEPT !.pc = "idle"]
          ELSE [display EXCEPT !.seen = @ + 1]
    /\ DisplayUnchanged

InitDisplay == InitInput

NextDisplay ==
    \/ \E e \in DisplayEvents : ProcessEvent(e)
    \/ CallUpdateDisplayData
    \/ UiInsertBegin
    \/ UiInsertNext

SpecDisplay == InitDisplay /\ [][NextDisplay]_vars

----------------------------------------------------------------------------
(***************************************************************************)
(* The codec called from outside: frames are decoded, messages encoded and *)
(* classes registered, in any order.  The frames are the encodings of      *)
(* heartbeat messages, the same frames under another type tag, every       *)
(* proper prefix of the header of one, and frames cut inside the payload.  *)
(***************************************************************************)

CodecStatuses == {Chars["alive"], Chars["degraded"]}
CodecIds == {0, 258}
CodecTimestamps == {ZeroFloat, time_time(1500)}
CodecTags == {HEARTBEAT, STATUS_REQUEST, GPS_DATA, QUIT}
\* the clock when the codec is used, in ms
CodecTimes == {1000, 2000}

HeartbeatMessages ==
    {BaseMessageInit("HeartbeatMessage", id, ts, <<JStr(status)>>, 1000) :
        id \in CodecIds, ts \in CodecTimestamps, status \in CodecStatuses}

\* the maps given to create_controller_data: empty, with the int keys of
\* ControllerState, with str keys
XboxDataMaps ==
    {<<>>,
     << <<JInt(AXIS_LY), JInt(100)>>, <<JInt(XBOX_A + 6), JInt(ON)>> >>,
     << <<JStr(Chars["axis_ly"]), JInt(100)>> >>}

N64DataMaps == {<<>>, << <<JInt(C_DOWN), JInt(ON)>> >>}

\* create_controller_data: "xbox_data or {}" leaves a dict as it is
ControllerDataMessages ==
    {BaseMessageInit("ControllerDataMessage", 258, time_time(1500),
                     <<JDict(x), JDict(n), JBool(r)>>, 1000) :
        x \in XboxDataMaps, n \in N64DataMaps, r \in BOOLEAN}

\* create_telemetry
TelemetryMessages ==
    {BaseMessageInit("TelemetryMessage", 258, time_time(1500),
                     <<JDict(sensors), JDict(system)>>, 1000) :
        sensors \in {<<>>, << <<JStr(Chars["battery"]), JInt(85)>> >>},
        system \in {<<>>, << <<JStr(Chars["status"]), JStr(Chars["alive"])>> >>}}

\* GPSMessage(latitude=51.5): json writes the floats as 51.5 and 0.0
GPSMessages ==
    {BaseMessageInit("GPSMessage", 258, time_time(1500),
                     <<JFloat(<<53, 49, 46, 53>>), JFloat(<<48, 46, 48>>),
                       JFloat(<<48, 46, 48>>), JFloat(<<48, 46, 48>>)>>, 1000)}

CodecMessages == HeartbeatMessages \cup ControllerDataMessages \cup TelemetryMessages

\* the frame under another type tag
Retag(frame, tag) == [frame EXCEPT ![1] = tag]

\* the frames as sent, with id 0 or timestamp 0.0 in the header as well
SentFrames ==
    {to_bytes([message_type |-> HEARTBEAT, message_id |-> id, timestamp |-> ts,
               payload_length |-> Len(encode_payload(m))]) \o encode_payload(m) :
        id \in CodecIds, ts \in CodecTimestamps, m \in HeartbeatMessages}

TaggedFrames == {Retag(f, tag) : f \in SentFrames, tag \in CodecTags}

ShortFrames == {SubSeq(f, 1, n) : f \in TaggedFrames, n \in 0..(HEADER_SIZE - 1)}

CutFrames == {SubSeq(f, 1, n) : f \in SentFrames, n \in {HEADER_SIZE, HEADER_SIZE + 5}}

DataFrames ==
    {encode(m) : m \in ControllerDataMessages \cup TelemetryMessages \cup GPSMessages}

CodecFrames == TaggedFrames \cup ShortFrames \cup CutFrames \cup DataFrames

RegisteredClasses == {"GPSMessage", "HeartbeatMessage"}

CallDecodeMessage ==
    \E data \in CodecFrames :
        LET r == decode_message(message_classes, data, now)
        IN  /\ codec_call' =
                  [op |-> "decode_message", data |-> data, exc |-> r.exc,
                   ret |-> r.ret, out |-> <<>>, before |-> message_classes,
                   registered |-> <<>>,
                   failed_before |-> \/ codec_call.failed_before
                                     \/ /\ codec_call.op = "decode_message"
                                        /\ codec_call.exc # "None"]
            /\ UNCHANGED <<message_classes, udp, tester, display, cmVars, loopVars, comm, hb, now, call, wire>>

CallEncodeMessage ==
    \E m \in CodecMessages :
        /\ codec_call' =
              [codec_call EXCEPT !.op = "encode_message", !.data = <<>>,
                                 !.exc = "None", !.ret = m,
                                 !.out = encode_message(m),
                                 !.registered = <<>>,
                                 !.before = message_classes,
                                 !.failed_before =
                                     \/ codec_call.failed_before
                                     \/ /\ codec_call.op = "decode_message"
                                        /\ codec_call.exc # "None"]
        /\ UNCHANGED <<message_classes, udp, tester, display, cmVars, loopVars, comm, hb, now, call, wire>>

CallRegisterMessageClass ==
    \E message_class \in RegisteredClasses :
        /\ message_classes' =
              register_message_class(message_classes, GPS_DATA, message_class)
        /\ codec_call' =
              [codec_call EXCEPT !.op = "register_message_class", !.data = <<>>,
                                 !.exc = "None", !.ret = NoMessage, !.out = <<>>,
                                 !.registered = <<GPS_DATA, message_class>>,
                                 !.before = message_classes,
                                 !.failed_before =
                                     \/ codec_call.failed_before
                                     \/ /\ codec_call.op = "decode_message"
                                        /\ codec_call.exc # "None"]
        /\ UNCHANGED <<udp, tester, display, cmVars, loopVars, comm, hb, now, call, wire>>

InitCodec ==
    /\ ControllerManagerInit
    /\ quit = FALSE
    /\ pc = "events"
    /\ xbee_enabled = TRUE
    /\ comm = CommunicationManagerInit(TRUE, TRUE)
    /\ hb = HeartbeatManagerInit(TRUE, TRUE)
    /\ now \in CodecTimes
    /\ timer = now
    /\ current_time = now
    /\ call = NoCall
    /\ wire = NoWire
    /\ message_classes = MessageCodecInit
    /\ codec_call = NoCodecCall
    /\ udp = UdpCommunicationManagerInit
    /\ tester = HeartbeatTesterInit
    /\ display = TkinterDisplayInit

NextCodec ==
    \/ CallDecodeMessage
    \/ CallEncodeMessage
    \/ CallRegisterMessageClass

SpecCodec == InitCodec /\ [][NextCodec]_vars

----------------------------------------------------------------------------
(***************************************************************************)
(* The CommunicationManager with the extensible format selected: controller*)
(* data is sent at the readings of the clock, which only moves forward.    *)
(***************************************************************************)

ExtTimes == {1000, 1500, 2000}
ExtXbox == {XboxDefaults, Put(XboxDefaults, AXIS_LY, 150)}
ExtN64 == {N64Defaults, Put(N64Defaults, N64_A, ON)}

CallSendControllerDataExt ==
    \E xv \in ExtXbox, nv \in ExtN64, rev \in BOOLEAN, ok \in BOOLEAN :
        CommCalled("send_controller_data",
                   [xbox |-> xv, n64 |-> nv, reverse_mode |-> rev], ok,
                   send_controller_data_extensible(comm, xv, nv, rev, now, ok),
                   "controller_data")

\* time passes between two calls
AdvanceExt ==
    /\ \E t \in ExtTimes : t > now /\ now' = t
    /\ UNCHANGED <<codecVars, udp, tester, display, cmVars, loopVars, comm, hb, call, wire>>

InitExt ==
    /\ ControllerManagerInit
    /\ quit = FALSE
    /\ pc = "events"
    /\ xbee_enabled = TRUE
    /\ comm = CommunicationManagerInit(TRUE, TRUE)
    /\ hb = HeartbeatManagerInit(TRUE, TRUE)
    /\ now = 1000
    /\ timer = now
    /\ current_time = now
    /\ call = NoCall
    /\ wire = NoWire
    /\ message_classes = MessageCodecInit
    /\ codec_call = NoCodecCall
    /\ udp = UdpCommunicationManagerInit
    /\ tester = HeartbeatTesterInit
    /\ display = TkinterDisplayInit

NextExt ==
    \/ CallSendControllerDataExt
    \/ AdvanceExt

SpecExt == InitExt /\ [][NextExt]_vars

----------------------------------------------------------------------------
(***************************************************************************)
(* The UdpCommunicationManager: the main thread starts and stops it and    *)
(* registers handlers, the receive thread runs _receive_loop.              *)
(***************************************************************************)

MaxReceived == 3

UdpTypes == {JStr(Chars["telemetry"]), JStr(Chars["status"])}
UdpData == {JDict(<<>>), JDict(<< <<JStr(Chars["battery"]), JInt(1)>> >>)}

\* what the rover sends: UdpMessage(type, data, 1.0).to_json()
UdpMessages ==
    {[message_type |-> ty, data |-> d, timestamp |-> JFloat(time_text(1000))] :
        ty \in UdpTypes, d \in UdpData}

ValidDatagrams ==
    {to_json(m) : m \in UdpMessages}
        \cup {json_dumps(JDict(<< <<JStr(Chars["type"]), JStr(Chars["telemetry"])>>,
                                  <<JStr(Chars["data"]), JDict(<<>>)>> >>))}

\* a datagram cut short, bytes that are no UTF-8, JSON that is no object,
\* an object without a type, and an object whose type is an object
BadDatagrams ==
    {Slice(to_json(m), 1, 20) : m \in UdpMessages}
        \cup {<<255>>, <<49>>,
              json_dumps(JDict(<< <<JStr(Chars["data"]), JDict(<<>>)>> >>)),
              json_dumps(JDict(<< <<JStr(Chars["type"]), JDict(<<>>)>>,
                                  <<JStr(Chars["data"]), JDict(<<>>)>> >>))}

Datagrams == ValidDatagrams \cup BadDatagrams

UdpUnchanged ==
    UNCHANGED <<codecVars, tester, display, cmVars, loopVars, comm, hb, now, call, wire>>

\* start(), not called while an earlier receive thread is still alive
UdpStart ==
    /\ ~udp.stopping
    /\ udp.running \/ udp.pc \in {"not started", "ended"}
    /\ udp' = start(udp)
    /\ UdpUnchanged

UdpStop ==
    /\ ~udp.stopping
    /\ udp' = stop(udp)
    /\ UdpUnchanged

\* stop() after the join, which has a timeout: the sockets are closed
UdpStopClose ==
    /\ udp.stopping
    /\ udp' = [udp EXCEPT !.stopping = FALSE, !.closed = TRUE]
    /\ UdpUnchanged

UdpRegisterHandler ==
    /\ ~udp.stopping
    /\ \E ty \in UdpTypes : udp' = register_message_handler(udp, ty)
    /\ UdpUnchanged

\* while self.running
UdpLoopTest ==
    /\ udp.pc = "loop"
    /\ udp' = [udp EXCEPT !.pc = IF udp.running THEN "body" ELSE "ended"]
    /\ UdpUnchanged

\* the body of the while; recvfrom on a closed socket raises OSError
UdpReceive ==
    /\ udp.pc = "body"
    /\ udp.messages_received < MaxReceived
    /\ \E recv \in IF udp.closed THEN {[kind |-> "error", data |-> <<>>]}
                   ELSE {[kind |-> "timeout", data |-> <<>>],
                         [kind |-> "error", data |-> <<>>]}
                        \cup {[kind |-> "datagram", data |-> d] : d \in Datagrams},
          hok \in BOOLEAN :
            udp' = receive(udp, recv, now, hok)
    /\ UdpUnchanged

InitUdp == InitExt

NextUdp ==
    \/ UdpStart
    \/ UdpStop
    \/ UdpStopClose
    \/ UdpRegisterHandler
    \/ UdpLoopTest
    \/ UdpReceive

SpecUdp == InitUdp /\ [][NextUdp]_vars

----------------------------------------------------------------------------
(* Claims about the input handlers *)

SelectOn == Get(values["xbox"], SELECT + 6, 0) = ON
StartOn == Get(values["xbox"], START + 6, 0) = ON
MappedTo(id) == Get(instance_id_values_map, id, "None")

\* a hat event that update_mode_flags acts on: UP or DOWN from a device
\* mapped to the xbox profile, processed while a joystick is known
IsModeHat(e) ==
    /\ e.type = "JOYHATMOTION"
    /\ e.value \in {JOYPAD_UP, JOYPAD_DOWN}
    /\ MappedTo(e.instance_id) = "xbox"
    /\ joysticks # {}

\* C8: mode flags are set, not flipped.  While SELECT is stored ON an xbox
\* hat UP leaves reverse_mode TRUE whatever it was and a hat DOWN leaves it
\* FALSE whatever it was; likewise creep_mode with START; and
\* update_mode_flags applied twice gives what it gives applied once.
C8_ModesSetNotFlipped ==
    [][\A e \in HatEvents(Ids, {JOYPAD_UP, JOYPAD_DOWN}) :
         (IsModeHat(e) /\ ProcessEvent(e)) =>
            /\ SelectOn => (reverse_mode' = (e.value = JOYPAD_UP))
            /\ StartOn => (creep_mode' = (e.value = JOYPAD_UP))
            /\ LET once == update_mode_flags(Cur, e.value, "xbox")
                   twice == update_mode_flags(once, e.value, "xbox")
               IN  /\ twice.reverse_mode = once.reverse_mode
                   /\ twice.creep_mode = once.creep_mode
                   /\ reverse_mode' = twice.reverse_mode
                   /\ creep_mode' = twice.creep_mode]_vars

C8_Witness == reverse_mode /\ SelectOn /\ ~creep_mode /\ MappedTo(0) = "xbox"

\* C9: reverse_mode changes only in an xbox hat UP/DOWN event processed
\* while SELECT is stored ON, creep_mode only in one processed while START
\* is stored ON; every other event leaves both flags as they are.
C9_ModesChangeOnlyByModeHat ==
    [][/\ (reverse_mode' # reverse_mode) =>
             (SelectOn /\ \E e \in HatEvents(Ids, {JOYPAD_UP, JOYPAD_DOWN}) :
                             IsModeHat(e) /\ ProcessEvent(e))
       /\ (creep_mode' # creep_mode) =>
             (StartOn /\ \E e \in HatEvents(Ids, {JOYPAD_UP, JOYPAD_DOWN}) :
                            IsModeHat(e) /\ ProcessEvent(e))
       /\ (reverse_mode' # reverse_mode \/ creep_mode' # creep_mode) =>
             \A e \in InputEvents : ~IsModeHat(e) => ~ProcessEvent(e)]_vars

C9_Witness ==
    /\ creep_mode /\ ~reverse_mode
    /\ MappedTo(0) = "xbox" /\ MappedTo(1) = "n64"
    /\ SelectOn /\ values["n64"][DP_UP] = ON

\* the multiplier and the stored byte as the spec words them: m*v' + 100 with
\* v in hundredths is (m*v' + 10000)/100, and its floor is the n with
\* 100*n <= m*v' + 10000 < 100*(n+1)
SpecMultiplier(creep, reverse) ==
    LET m == IF creep THEN 20 ELSE 100 IN IF reverse THEN 0 - m ELSE m

SpecAxisByte(v, creep, reverse) ==
    LET vd == IF (v < 10 /\ v > -10) THEN 0 ELSE v
        x == SpecMultiplier(creep, reverse) * vd + 10000
        n == CHOOSE k \in (0 - RawMax)..(RawMax + 200) :
                 100 * k <= x /\ x < 100 * (k + 1)
    IN  IF n < 0 THEN 0 ELSE IF n > 200 THEN 200 ELSE n

\* C10: an axis event of a device mapped to xbox stores at its axis key
\* clamp(floor(m*v' + 100), 0, 200) with the mode flags of that moment; so
\* 0.5 with both modes off stores 150 and every stored byte is in 0..200.
C10_AxisTransform ==
    [][\A e \in AxisEvents({0}, {AXIS_LY}, AxisRaws) :
         ProcessEvent(e) =>
            /\ values'["xbox"][e.axis] = SpecAxisByte(e.value, creep_mode, reverse_mode)
            /\ values'["xbox"][e.axis] \in 0..200
            /\ (e.value = 50 /\ ~creep_mode /\ ~reverse_mode)
                  => values'["xbox"][e.axis] = 150]_vars

C10_Witness ==
    /\ values["xbox"][AXIS_LY] = 200
    /\ reverse_mode /\ creep_mode = FALSE

----------------------------------------------------------------------------
(* Claims about the CommunicationManager *)

Ready(c) == c.enabled /\ c.xbee_device /\ c.remote_xbee
IsDataCall(k) == k.op = "send_controller_data"
FrameOf(k) == create_combined_message(k.args.xbox, k.args.n64, k.args.reverse_mode)
\* the call handed one frame and the transport raised
TransportFailed(k) == Len(k.sent) = 1 /\ ~k.sent[1].ok

\* C1: with communication enabled, the handles set and the transport
\* accepting, a send_controller_data call whose frame is not the cached one
\* returns TRUE and hands exactly that one frame to the transport, and the
\* call that follows it with the same xbox values, n64 values and
\* reverse_mode returns FALSE and hands nothing: one frame for the two calls.
C1_RepeatedDataSentOnce ==
    [][IsDataCall(call') =>
         /\ (Ready(comm) /\ call'.ok /\ IsByteList(FrameOf(call'))
               /\ FrameOf(call') # comm.last_message)
               => /\ call'.ret
                  /\ call'.sent = <<[frame |-> FrameOf(call'), ok |-> TRUE,
                                     by |-> "controller_data"]>>
         /\ (IsDataCall(call) /\ call.ret /\ call'.args = call.args)
               => /\ ~call'.ret
                  /\ call'.sent = <<>>
                  /\ Len(call.sent) + Len(call'.sent) = 1]_vars

\* the second of two equal calls: suppressed because the cache holds its frame
C1_Witness ==
    /\ IsDataCall(call) /\ Ready(comm) /\ call.ok
    /\ ~call.ret /\ call.sent = <<>>
    /\ call.before_message = FrameOf(call)
    /\ comm.last_message = FrameOf(call)

----------------------------------------------------------------------------
(* Claims about the HeartbeatManager *)

IsHbSend(k) == k.op \in {"update", "send_heartbeat"}
Due(h, t) == t - h.last_heartbeat_time >= h.heartbeat_interval

\* C4: last_heartbeat_time moves only in an update or send_heartbeat call
\* whose transmission succeeded, and then to the time of the call; a
\* send_heartbeat that fails in the transport, or is made while disabled or
\* without a handle, returns FALSE and leaves it; and the update that comes
\* next after an update whose send failed hands a heartbeat to the transport
\* again, however little time has passed.
C4_StampOnlyOnSuccess ==
    [][/\ (hb'.last_heartbeat_time # hb.last_heartbeat_time)
             => /\ IsHbSend(call') /\ call'.ret
                /\ Len(call'.sent) = 1 /\ call'.sent[1].ok
                /\ hb'.last_heartbeat_time = now
       /\ (call'.op = "send_heartbeat" /\ call' # call
             /\ (~call'.ok \/ ~Ready(hb)))
             => /\ ~call'.ret /\ ~call'.raised
                /\ hb'.last_heartbeat_time = hb.last_heartbeat_time
       /\ (call.op = "update" /\ TransportFailed(call)
             /\ call'.op = "update" /\ call' # call)
             => Len(call'.sent) = 1]_vars

\* a due send failed after an earlier one had succeeded: the stamp is the old one
C4_Witness ==
    /\ call.op = "update" /\ TransportFailed(call) /\ ~call.ret
    /\ call.before_time > 0
    /\ hb.last_heartbeat_time = call.before_time

\* C5: update hands a heartbeat to the transport only when
\* now - last_heartbeat_time >= heartbeat_interval, and whenever that holds
\* and the manager is enabled with both handles; it returns TRUE exactly
\* when the transport took the heartbeat; called earlier it sends nothing,
\* returns FALSE and leaves the manager as it was; and an update made more
\* than the interval after an update that sent, sends when the transport
\* accepts (so with 100 ms each of the polls 110 ms apart).
C5_UpdateSendsWhenDue ==
    [][(call'.op = "update" /\ (call' # call \/ hb' # hb)) =>
         /\ (call'.sent # <<>>) => Due(hb, now)
         /\ (Due(hb, now) /\ Ready(hb)) => Len(call'.sent) = 1
         /\ call'.ret <=> (Len(call'.sent) = 1 /\ call'.sent[1].ok)
         /\ ~Due(hb, now) => (call'.sent = <<>> /\ ~call'.ret /\ hb' = hb)
         /\ (call.op = "update" /\ call.ret /\ Ready(hb) /\ call'.ok
               /\ now - call.at > hb.heartbeat_interval)
               => call'.ret]_vars

\* the fifth of the polls 110 ms apart at interval 100 ms has sent
C5_Witness ==
    /\ call.op = "update" /\ call.ret
    /\ hb.heartbeat_interval = ONE_HUNDRED_MS
    /\ call.at = StartTime + 4 * 110
    /\ call.before_time = StartTime + 3 * 110
    /\ hb.last_heartbeat_time = call.at

----------------------------------------------------------------------------
(* Claims about the control loop *)

SentBy(k, kind) == {i \in 1..Len(k.sent) : k.sent[i].by = kind}
FailedSends(k) == {i \in 1..Len(k.sent) : ~k.sent[i].ok}

\* each of the four sending operations, called in this state with the
\* transport raising, returns FALSE and raises nothing
FailsQuietly ==
    /\ LET r == send_controller_data(comm, get_controller_values(values, "xbox"),
                                     get_controller_values(values, "n64"),
                                     reverse_mode, FALSE)
       IN  ~r.ret /\ ~r.raised
    /\ LET r == send_heartbeat(hb, now, FALSE) IN ~r.ret /\ ~r.raised
    /\ LET r == send_quit_message(comm, FALSE) IN ~r.ret /\ ~r.raised
    /\ \A data \in CompactData, skip \in BOOLEAN :
          LET r == send_compact_message(comm, data, skip, FALSE)
          IN  ~r.ret /\ ~r.raised

\* C3: a send in which the transport raises returns FALSE and lets no
\* exception out, in send_controller_data, send_compact_message,
\* send_quit_message and send_heartbeat; so update_info raises nothing,
\* leaves quit as it was and the loop goes on to its sleep, whatever the
\* transport did with the heartbeat and with the controller data.
C3_TransportFailureContained ==
    [][/\ (pc = "update" /\ pc' # "update")
             => /\ FailsQuietly
                /\ ~call'.raised
                /\ quit' = quit
                /\ pc' = "sleep"
       /\ (pc = "finally" /\ pc' # "finally")
             => /\ FailsQuietly
                /\ ~call'.raised
                /\ FailedSends(call') # {} => ~call'.ret
                /\ pc' = "cleanup"]_vars

\* a tick in which the transport raised on both frames, and the loop goes on
C3_Witness ==
    /\ call.op = "update_info" /\ Len(call.sent) = 2
    /\ FailedSends(call) = {1, 2}
    /\ ~quit /\ pc = "sleep"

\* C6 as stated: in one update_info at most one controller-data frame and
\* at most one heartbeat frame, the controller-data frame first.
C6_DataBeforeHeartbeat ==
    call.op = "update_info" =>
        /\ Cardinality(SentBy(call, "controller_data")) <= 1
        /\ Cardinality(SentBy(call, "heartbeat")) <= 1
        /\ \A i \in SentBy(call, "controller_data"), j \in SentBy(call, "heartbeat") :
              i < j

\* C6: in one update_info at most one controller-data frame and at most one
\* heartbeat frame are handed to the transport, and nothing else; when both
\* are, the heartbeat frame is handed first.
C6_HeartbeatBeforeData ==
    call.op = "update_info" =>
        /\ Cardinality(SentBy(call, "controller_data")) <= 1
        /\ Cardinality(SentBy(call, "heartbeat")) <= 1
        /\ Len(call.sent) <= 2
        /\ \A i \in 1..Len(call.sent) :
              /\ call.sent[i].by \in {"controller_data", "heartbeat"}
              /\ call.sent[i].by = "heartbeat" => call.sent[i].frame[1] = HEARTBEAT_MESSAGE
              /\ call.sent[i].by = "controller_data" => call.sent[i].frame[1] = START_MESSAGE
        /\ \A i \in SentBy(call, "controller_data"), j \in SentBy(call, "heartbeat") :
              j < i

\* a tick that sent both
C6_Witness ==
    /\ call.op = "update_info"
    /\ SentBy(call, "heartbeat") = {1}
    /\ SentBy(call, "controller_data") = {2}

\* C7: the quit frame is the one byte QUIT_MESSAGE, which is not
\* START_MESSAGE; the transport gets it at most once, never after the device
\* was closed, and gets no other frame after it; nothing is sent when
\* communication is off; and when the loop has ended with communication
\* enabled and the transport accepting the frame, it got it exactly once.
C7_QuitFrameOnce ==
    /\ QUIT_MESSAGE = 254 /\ QUIT_MESSAGE # START_MESSAGE
    /\ wire.quit_frames <= 1
    /\ ~wire.after_quit
    /\ ~wire.after_close
    /\ wire.closed => pc = "done"
    /\ ~xbee_enabled => wire.quit_frames = 0
    /\ \A i \in SentBy(call, "quit") : call.sent[i].frame = <<QUIT_MESSAGE>>
    /\ pc \in {"cleanup", "done"} =>
          /\ call.op = "send_quit_message"
          /\ (xbee_enabled /\ comm.enabled /\ call.ok)
                => /\ call.ret
                   /\ call.sent = <<[frame |-> <<QUIT_MESSAGE>>, ok |-> TRUE,
                                     by |-> "quit"]>>
                   /\ wire.quit_frames = 1

\* the loop has ended after frames were sent: quit frame accepted, device closed
C7_Witness ==
    /\ pc = "done" /\ wire.closed /\ wire.quit_frames = 1
    /\ call.op = "send_quit_message" /\ call.ret
    /\ comm.last_message = <<QUIT_MESSAGE>>
    /\ hb.last_heartbeat_time > 0

----------------------------------------------------------------------------
(* Claims about the deadband and the legacy frame *)

\* the xbox map after the axis event with the reading v in place of e's
StoredFor(e, v) ==
    process_controller_event(Cur, [e EXCEPT !.value = v]).values["xbox"][e.axis]

\* C11: in every mode combination an axis reading v with |v| < 0.10 stores
\* the byte that v = 0 stores, the neutral 100; a reading with |v| = 0.10 is
\* kept: it stores 100 + floor(m * v), which is not 100.
C11_Deadband ==
    [][\A e \in AxisEvents({0}, {AXIS_LY}, AxisRaws) :
         ProcessEvent(e) =>
            /\ Abs(e.value) < 10
                  => /\ values'["xbox"][e.axis] = 100
                     /\ values'["xbox"][e.axis] = StoredFor(e, 0)
            /\ Abs(e.value) = 10
                  => /\ values'["xbox"][e.axis] # 100
                     /\ values'["xbox"][e.axis] # StoredFor(e, 0)
                     /\ values'["xbox"][e.axis] =
                           100 + ((SpecMultiplier(creep_mode, reverse_mode) * e.value)
                                    \div 100)]_vars

\* a reading of exactly the threshold stored in creep and reverse mode
C11_Witness ==
    /\ values["xbox"][AXIS_LY] = 98
    /\ creep_mode /\ reverse_mode

\* the keys the frame carries
XboxFieldKeys ==
    {XBOX_A + 6, XBOX_B + 6, XBOX_X + 6, XBOX_Y + 6,
     LEFT_BUMPER + 6, RIGHT_BUMPER + 6, AXIS_LT, AXIS_RT}
N64FieldKeys == DOMAIN N64Defaults

\* axis bytes of one byte, button and trigger fields of two bits
ValidMappings ==
    /\ \A k \in DOMAIN values["xbox"] :
          /\ k \in {AXIS_LY, AXIS_RY} => values["xbox"][k] \in 0..255
          /\ k \in XboxFieldKeys => values["xbox"][k] \in 0..3
    /\ \A k \in DOMAIN values["n64"] : values["n64"][k] \in 0..3

DefaultFrame == <<222, 100, 100, 85, 85, 222, 85, 85, 85, 1>>

\* C12: for every pair of mappings, whole, partial or empty, whose axis
\* values are single bytes and whose fields are in 0..3, and for both values
\* of reverse_mode, create_combined_message raises nothing and gives 10
\* bytes with START at bytes 0 and 5: the frame of the mappings completed
\* with neutral 100 for an absent axis and OFF for an absent button or
\* trigger; so the empty mappings give the frame of the all-default state.
C12_FrameTotal ==
    (call.op = "create_combined_message" /\ ValidMappings) =>
        /\ ~call.raised
        /\ Len(call.ret) = 10
        /\ IsByteList(call.ret)
        /\ call.ret[1] = START_MESSAGE /\ call.ret[6] = START_MESSAGE
        /\ call.ret = create_combined_message(Update(XboxDefaults, values["xbox"]),
                                              Update(N64Defaults, values["n64"]),
                                              reverse_mode)
        /\ (values["xbox"] = EmptyDict /\ values["n64"] = EmptyDict)
              => /\ call.ret = DefaultFrame
                 /\ call.ret = create_combined_message(XboxDefaults, N64Defaults,
                                                       reverse_mode)

\* the frame of two empty mappings
C12_Witness ==
    /\ call.op = "create_combined_message"
    /\ values["xbox"] = EmptyDict /\ values["n64"] = EmptyDict
    /\ call.ret = DefaultFrame

\* C13: for mappings whose fields are in 0..3 and whose LY and RY are
\* single bytes, parse_combined_message of the frame that
\* create_combined_message made with reverse_mode false raises nothing and
\* gives an xbox dict of LY, RY and the 8 packed fields and an n64 dict of
\* the 13 packed fields, each holding the value the input held (the default
\* where the input had no such key).
C13_RoundTrip ==
    (call.op = "parse_combined_message" /\ ValidMappings /\ ~reverse_mode) =>
        /\ ~call.raised
        /\ DOMAIN call.ret[1] = {AXIS_LY, AXIS_RY} \cup XboxFieldKeys
        /\ DOMAIN call.ret[2] = N64FieldKeys
        /\ \A k \in {AXIS_LY, AXIS_RY} :
              call.ret[1][k] = Get(values["xbox"], k, NEUTRAL_HEX)
        /\ \A k \in XboxFieldKeys : call.ret[1][k] = Get(values["xbox"], k, OFF)
        /\ \A k \in N64FieldKeys : call.ret[2][k] = Get(values["n64"], k, OFF)

\* a whole xbox mapping with fields 2 and 3 and different axis bytes, parsed back
C13_Witness ==
    /\ call.op = "parse_combined_message" /\ ~reverse_mode
    /\ values["xbox"] = XboxOf(2, 3)
    /\ call.ret[1][AXIS_LY] = 150 /\ call.ret[1][AXIS_RY] = 255
    /\ call.ret[1][XBOX_A + 6] = 2 /\ call.ret[1][AXIS_RT] = 3

\* C14: the frame holds the LY byte at index 1 and the RY byte at index 2
\* when reverse_mode is false, and the RY byte at index 1 and the LY byte at
\* index 2 when it is true; bytes 0, 3 and 4 and the n64 half (bytes 5..9)
\* are those of the frame made with the other value of reverse_mode.
C14_ReverseSwapsAxes ==
    (call.op = "create_combined_message" /\ ValidMappings) =>
        LET ly == Get(values["xbox"], AXIS_LY, 100)
            ry == Get(values["xbox"], AXIS_RY, 100)
            other == create_combined_message(values["xbox"], values["n64"],
                                             ~reverse_mode)
        IN  /\ ~reverse_mode => (call.ret[2] = ly /\ call.ret[3] = ry)
            /\ reverse_mode => (call.ret[2] = ry /\ call.ret[3] = ly)
            /\ SubSeq(call.ret, 1, 5) = create_xbox_message(values["xbox"], reverse_mode)
            /\ other[2] = call.ret[3] /\ other[3] = call.ret[2]
            /\ \A i \in {1, 4, 5, 6, 7, 8, 9, 10} : other[i] = call.ret[i]

\* a reversed frame of a mapping whose LY and RY differ
C14_Witness ==
    /\ call.op = "create_combined_message" /\ reverse_mode
    /\ values["xbox"] = XboxOf(1, 2)
    /\ call.ret[2] = 150 /\ call.ret[3] = 100

----------------------------------------------------------------------------
(* Claims about ControllerState and the event handlers *)

HasDefaultKeys(vals) ==
    /\ DOMAIN vals = {"xbox", "n64"}
    /\ DOMAIN XboxDefaults \subseteq DOMAIN vals["xbox"]
    /\ DOMAIN N64Defaults \subseteq DOMAIN vals["n64"]

\* C15: the 14 xbox keys and the 13 n64 keys set at construction are
\* present before and after every axis, trigger, button, hat and hotplug
\* event, and no event removes any key of either map; update_value gives a
\* map with the keys it had and the key written, holding the value written
\* and the other values as they were, and changes nothing for a controller
\* type that is neither "xbox" nor "n64".
C15_KeysStay ==
    [][/\ Cardinality(DOMAIN XboxDefaults) = 14
       /\ Cardinality(DOMAIN N64Defaults) = 13
       /\ HasDefaultKeys(values) /\ HasDefaultKeys(values')
       /\ \A t \in {"xbox", "n64"} : DOMAIN values[t] \subseteq DOMAIN values'[t]
       /\ (values' # values) =>
             /\ \A t \in {"xbox", "n64"}, k \in {AXIS_LY, HOME + 6, N64_START},
                   v \in {OFF, ON} :
                   LET after == update_value(values, t, k, v)
                   IN  /\ DOMAIN after[t] = DOMAIN values[t] \cup {k}
                       /\ after[t][k] = v
                       /\ \A j \in DOMAIN values[t] \ {k} : after[t][j] = values[t][j]
                       /\ \A u \in {"xbox", "n64"} \ {t} : after[u] = values[u]
             /\ \A t \in {"other", "None"}, k \in {AXIS_LY, HOME + 6},
                   v \in {OFF, ON} :
                   update_value(values, t, k, v) = values]_vars

\* both devices connected and used: every default is still there
C15_Witness ==
    /\ MappedTo(0) = "xbox" /\ MappedTo(1) = "n64"
    /\ values["xbox"][AXIS_LY] = 150 /\ values["xbox"][AXIS_LT] = ON
    /\ values["xbox"][START + 6] = ON /\ values["n64"][DP_LEFT] = ON
    /\ HasDefaultKeys(values)

XboxAxisKeys == {AXIS_LX, AXIS_LY, AXIS_RX, AXIS_RY}

\* every button and trigger key OFF or ON, every axis key an axis byte
FieldsOnOff(vals) ==
    /\ \A k \in DOMAIN vals["xbox"] \ XboxAxisKeys : vals["xbox"][k] \in {OFF, ON}
    /\ \A k \in DOMAIN vals["n64"] : vals["n64"][k] \in {OFF, ON}
    /\ \A k \in XboxAxisKeys : vals["xbox"][k] \in MIN_VALUE..MAX_VALUE

\* vals is old but for the key of the map of type t, which holds v
OnlyWritten(old, vals, t, key, v) ==
    /\ DOMAIN vals[t] = DOMAIN old[t] \cup {key}
    /\ vals[t][key] = v
    /\ \A j \in DOMAIN old[t] \ {key} : vals[t][j] = old[t][j]
    /\ \A u \in DOMAIN old \ {t} : vals[u] = old[u]

\* C16: under button, trigger and hat events every button and trigger key
\* of both maps holds OFF = 1 or ON = 2 and the four xbox axis keys hold an
\* axis byte; a button event of a mapped device whose reading is taken
\* writes reading + 1 at key b + 6 of the xbox map, or at key b of the n64
\* map, and nothing else, so it writes none of the xbox keys 0..5.
C16_ButtonsOffOrOn ==
    /\ OFF = 1 /\ ON = 2
    /\ FieldsOnOff(values)
    /\ \A e \in ButtonEvents(Ids, {XBOX_A, HOME, N64_START}) :
          (pc = "events" /\ joysticks # {} /\ MappedTo(e.instance_id) # "None"
             /\ e.joy \in joysticks)
          => LET t == MappedTo(e.instance_id)
                 key == IF t = "xbox" THEN e.button + 6 ELSE e.button
                 after == process_controller_event(Cur, e).values
             IN  /\ OnlyWritten(values, after, t, key, e.pressed + 1)
                 /\ t = "xbox" => key \notin 0..5
                 /\ \A k \in 0..5 : after["xbox"][k] = values["xbox"][k]

\* buttons of both devices and a trigger stored
C16_Witness ==
    /\ MappedTo(0) = "xbox" /\ MappedTo(1) = "n64"
    /\ values["xbox"][XBOX_A + 6] = ON /\ values["xbox"][AXIS_LT] = ON
    /\ values["n64"][C_DOWN] = ON /\ values["n64"][DP_UP] = ON
    /\ ~quit

IsDeviceInput(e) ==
    e.type \in {"JOYAXISMOTION", "JOYBUTTONDOWN", "JOYBUTTONUP", "JOYHATMOTION"}

\* C17: an axis, trigger, button or hat event whose instance id is not in
\* instance_id_values_map changes nothing: both maps of ControllerState,
\* creep_mode, reverse_mode, quit and the device tables are as before, and
\* no exception leaves the handler.
C17_UnmappedIsNoOp ==
    \A e \in InputEvents :
        (pc = "events" /\ IsDeviceInput(e)
           /\ e.instance_id \notin DOMAIN instance_id_values_map)
        => LET r == process_controller_event(Cur, e)
           IN  /\ ~r.raised
               /\ r.values = values
               /\ r.creep_mode = creep_mode /\ r.reverse_mode = reverse_mode
               /\ r.quit = quit
               /\ r = Cur

\* a device of neither kind is connected next to a mapped one that was used
C17_Witness ==
    /\ 0 \in joysticks /\ MappedTo(0) = "None"
    /\ MappedTo(1) = "n64" /\ values["n64"][DP_UP] = ON
    /\ ~quit /\ pc = "events"

\* C18: a device-added event records the joystick, maps its id to xbox
\* when the name has "xbox", to n64 when it has "dinput", leaves the map as
\* it is for any other name, and leaves quit as it is; a device-removed
\* event processed while a joystick is known takes the id out of the
\* joystick table and out of the map, keeps the other ids, and sets quit,
\* whether or not the id was mapped (or known); while no joystick is known
\* it does nothing.  Neither touches ControllerState or the mode flags.
C18_Hotplug ==
    pc = "events" =>
        /\ \A e \in AddedEvents(Ids, DeviceNames) :
              LET r == process_controller_event(Cur, e)
              IN  /\ ~r.raised /\ r.quit = quit
                  /\ r.joysticks = joysticks \cup {e.instance_id}
                  /\ r.instance_id_values_map =
                        IF e.name = "xbox" THEN Put(instance_id_values_map, e.instance_id, "xbox")
                        ELSE IF e.name = "dinput"
                        THEN Put(instance_id_values_map, e.instance_id, "n64")
                        ELSE instance_id_values_map
                  /\ r.values = values
                  /\ r.creep_mode = creep_mode /\ r.reverse_mode = reverse_mode
        /\ \A e \in RemovedEvents(Ids) :
              LET r == process_controller_event(Cur, e)
              IN  IF joysticks = {}
                  THEN r = Cur
                  ELSE /\ ~r.raised /\ r.quit
                       /\ r.joysticks = joysticks \ {e.instance_id}
                       /\ DOMAIN r.instance_id_values_map =
                             DOMAIN instance_id_values_map \ {e.instance_id}
                       /\ \A i \in DOMAIN r.instance_id_values_map :
                             r.instance_id_values_map[i] = instance_id_values_map[i]
                       /\ r.values = values
                       /\ r.creep_mode = creep_mode /\ r.reverse_mode = reverse_mode

\* the drive controller was used and then removed; the other one is still there
C18_Witness ==
    /\ quit
    /\ values["xbox"][AXIS_LY] = 150
    /\ 0 \notin joysticks /\ MappedTo(0) = "None"
    /\ 1 \in joysticks /\ MappedTo(1) = "n64"

IsQuitButton(e) ==
    \/ MappedTo(e.instance_id) = "xbox" /\ e.button = HOME
    \/ MappedTo(e.instance_id) = "n64" /\ e.button = N64_START

\* C19: a button event processed while quit is not set leaves quit set
\* exactly when it is HOME of a mapped xbox device or START of a mapped n64
\* device, and then the reading + 1 is in ControllerState at key 14 of the
\* xbox map, or key 12 of the n64 map, and nothing was raised.  The lookup
\* joysticks[event.joy] of process_button raises KeyError when the device
\* index is not a key of the table, so this does not hold.
C19_QuitButtonOnly ==
    \A e \in ButtonEvents(Ids, {XBOX_A, HOME, N64_START}) :
        (pc = "events" /\ ~quit)
        => LET r == process_controller_event(Cur, e)
               t == MappedTo(e.instance_id)
               key == IF t = "xbox" THEN 14 ELSE 12
           IN  /\ (r.quit \/ r.raised) <=> IsQuitButton(e)
               /\ IsQuitButton(e) =>
                     /\ ~r.raised
                     /\ r.values[t][key] = e.pressed + 1

----------------------------------------------------------------------------
(* Claims about the extensible format *)

FailedDecodeBefore ==
    \/ codec_call.failed_before
    \/ codec_call.op = "decode_message" /\ codec_call.exc # "None"

\* C20: decode_message raises ValueError and returns no message for every
\* input shorter than the 15-byte header and for every input whose type tag
\* has no class in the registry, whatever was registered so far; a decode
\* leaves the registry as it was; and after a failed decode every frame
\* that a heartbeat was sent as still decodes, to a HeartbeatMessage with
\* the status sent.
C20_DecodeErrors ==
    /\ \A data \in CodecFrames :
          (Len(data) < 15 \/ data[1] \notin get_supported_types(message_classes))
          => LET r == decode_message(message_classes, data, now)
             IN  r.exc = "ValueError" /\ r.ret = NoMessage
    /\ {STATUS_REQUEST, QUIT} \cap get_supported_types(message_classes) = {}
    /\ codec_call.op = "decode_message" => message_classes = codec_call.before
    /\ FailedDecodeBefore =>
          \A m \in HeartbeatMessages :
              LET r == decode_message(message_classes, encode_message(m), now)
              IN  /\ r.exc = "None"
                  /\ r.ret.cls = "HeartbeatMessage"
                  /\ r.ret.attrs = m.attrs

\* a frame decoded after a decode that failed
C20_Witness ==
    /\ codec_call.op = "decode_message" /\ codec_call.exc = "None"
    /\ codec_call.failed_before
    /\ codec_call.ret.cls = "HeartbeatMessage"
    /\ codec_call.ret.attrs = <<JStr(Chars["degraded"])>>

\* C21: the instance that decode_message returns has the message_id and
\* the timestamp of the header of the frame decoded, for every header,
\* those with message id 0 and timestamp 0.0 as well.  BaseMessage.__init__
\* takes "message_id or ..." and "timestamp or ...", so a 0 of the header
\* is replaced by a value of the clock, and this does not hold.
C21_HeaderValuesKept ==
    (codec_call.op = "decode_message" /\ codec_call.exc = "None")
    => LET header == from_bytes(SubSeq(codec_call.data, 1, HEADER_SIZE))
       IN  /\ codec_call.ret.message_id = header.message_id
           /\ codec_call.ret.timestamp = header.timestamp

\* what json makes of v: every key of a dict becomes the str of its text
RECURSIVE StrKeys(_)
StrKeys(v) ==
    IF v.t # "dict" THEN v
    ELSE JDict([i \in 1..Len(v.d) |->
                   <<JStr(KeyText(v.d[i][1])), StrKeys(v.d[i][2])>>])

RoundTrip(m) == decode_message(message_classes, encode_message(m), now)

\* C22 (as the code has it): decode_message(encode_message(m)) is an
\* instance of the class of m, with the type tag of m; a heartbeat has the
\* same status; a telemetry message has the same sensor and system maps; a
\* controller-data message has the same reverse_mode, and its xbox and n64
\* maps are those of m with every key turned into a str, so they are the
\* same maps only when the keys of m are strs: the int keys of
\* ControllerState come back as "1", "6", "0".
C22_RoundTripStrKeys ==
    \A m \in CodecMessages :
        LET r == RoundTrip(m)
        IN  /\ r.exc = "None"
            /\ r.ret.cls = m.cls
            /\ message_type(r.ret.cls) = encode_message(m)[1]
            /\ r.ret.attrs = [i \in 1..Len(m.attrs) |-> StrKeys(m.attrs[i])]
            /\ m.cls \in {"HeartbeatMessage", "TelemetryMessage"} => r.ret.attrs = m.attrs
            /\ m.cls = "ControllerDataMessage" => r.ret.attrs[3] = m.attrs[3]

\* C22 as stated: every message decodes to the same status or maps
C22_RoundTrip ==
    \A m \in CodecMessages :
        LET r == RoundTrip(m)
        IN  r.exc = "None" /\ r.ret.cls = m.cls /\ r.ret.attrs = m.attrs

\* a controller-data frame of int-keyed maps decoded: the keys are strs
C22_Witness ==
    /\ codec_call.op = "decode_message" /\ codec_call.exc = "None"
    /\ codec_call.ret.cls = "ControllerDataMessage"
    /\ codec_call.ret.attrs =
          << JDict(<< <<JStr(<<49>>), JInt(100)>>, <<JStr(<<54>>), JInt(ON)>> >>),
             JDict(<< <<JStr(<<48>>), JInt(ON)>> >>),
             JBool(TRUE) >>

\* C23: with the extensible format, a send_controller_data call that
\* follows a call with the same xbox values, n64 values and reverse_mode
\* which transmitted its frame hands nothing to the transport and returns
\* False, whatever the clock shows at the second call.  The header of each
\* frame carries the clock's message id and timestamp, so the second frame
\* differs from the first as soon as the clock has moved, and this does not
\* hold.
C23_DuplicateSuppressed ==
    [][(/\ call.op = "send_controller_data" /\ call.ret
        /\ call' # call
        /\ call'.op = "send_controller_data" /\ call'.args = call.args)
       => (~call'.ret /\ call'.sent = <<>>)]_vars

BuiltInTypes == {HEARTBEAT, CONTROLLER_DATA, TELEMETRY, COMMAND, ERROR}

IsRegistration == codec_call'.op = "register_message_class" /\ codec_call' # codec_call

----------------------------------------------------------------------------
(* Claims about the legacy parser, the receive loop and the hat *)

\* C25: parse_combined_message raises ValueError, and returns nothing, for
\* every received frame whose length is not 10 or whose byte 0 or byte 5 is
\* not START, and returns the two dicts otherwise.  The parser only refuses
\* a frame shorter than 10 bytes: a longer frame with START at bytes 0 and 5
\* is parsed from its first 10 bytes, so this does not hold.
C25_ParseErrors ==
    call.op = "parse_combined_message_received" =>
        LET data == call.args
            bad == \/ Len(data) # 10
                   \/ data[1] # START_MESSAGE
                   \/ data[6] # START_MESSAGE
        IN  /\ call.raised <=> bad
            /\ call.raised => call.ret = <<>>
            /\ ~call.raised => Len(call.ret) = 2

\* a step that is one pass of the body of the receive loop
IsPass == udp.pc = "body" /\ udp'.pc # "body"

\* the message that the datagram of the pass decodes to
PassMessage == from_json(udp'.last.data, now)

\* C26 as stated: a pass never ends the loop, a datagram that fails to
\* decode or whose handler raises is not counted in messages_received, any
\* other datagram is counted and its handler called when its type has one,
\* and the loop ends only when running is false
C26_ReceiveLoop ==
    /\ [][IsPass => udp'.pc = "loop" /\ udp'.running = udp.running]_vars
    /\ [][IsPass /\ udp'.last.kind = "undecodable"
            => udp'.messages_received = udp.messages_received]_vars
    /\ [][IsPass /\ udp'.last.handler_raised
            => udp'.messages_received = udp.messages_received]_vars
    /\ [][IsPass /\ udp'.last.data \in ValidDatagrams /\ ~udp'.last.handler_raised
            => /\ udp'.messages_received = udp.messages_received + 1
               /\ udp'.last.handler_called
                    = (PassMessage.ret.message_type \in udp.message_handlers)]_vars
    /\ [][udp.pc # "ended" /\ udp'.pc = "ended" => ~udp.running]_vars

\* C26 amended: a pass never ends the loop; a datagram that fails to decode
\* is not counted and no handler is called for it; a datagram that decodes
\* is counted before it is dispatched, also when its handler raises, and
\* its handler is called exactly when its type has one; this holds for the
\* datagrams after a bad one as for the first; the loop ends only when
\* running is false, which only stop() makes it
C26_ReceiveLoopCounted ==
    /\ [][IsPass => udp'.pc = "loop" /\ udp'.running = udp.running]_vars
    /\ [][IsPass /\ udp'.last.kind \notin {"timeout", "error"}
                 /\ PassMessage.exc # "None"
            => /\ udp'.messages_received = udp.messages_received
               /\ ~udp'.last.handler_called
               /\ udp'.last_telemetry = udp.last_telemetry]_vars
    /\ [][IsPass /\ udp'.last.kind \notin {"timeout", "error"}
                 /\ PassMessage.exc = "None"
            => /\ udp'.messages_received = udp.messages_received + 1
               /\ udp'.last.handler_called
                    = (PassMessage.ret.message_type \in udp.message_handlers)]_vars
    /\ [][udp.pc # "ended" /\ udp'.pc = "ended" => ~udp.running]_vars
    /\ [][udp.running /\ ~udp'.running => udp'.stopping]_vars

\* a valid datagram is counted and handled after a pass that met a datagram
\* that did not decode or an exception
C26_Witness ==
    /\ udp.bad_before
    /\ udp.last.data \in ValidDatagrams
    /\ udp.last.handler_called
    /\ ~udp.last.handler_raised
    /\ udp.messages_received = 2

\* a hat event of a device mapped to the n64 profile, processed while a
\* joystick is known
IsN64Hat(e) ==
    /\ e.type = "JOYHATMOTION"
    /\ MappedTo(e.instance_id) = "n64"
    /\ joysticks # {}

\* C27: an n64 hat event (x, y) leaves DP_LEFT ON iff x = -1, DP_RIGHT ON
\* iff x = 1, DP_DOWN ON iff y = -1 and DP_UP ON iff y = 1, each of the four
\* OFF otherwise, and changes no other n64 key, no xbox key and no mode flag
C27_N64Hat ==
    [][\A e \in HatEvents(Ids, HatValues) :
         (IsN64Hat(e) /\ ProcessEvent(e)) =>
            /\ values'["n64"][DP_LEFT] = (IF e.value[1] = -1 THEN ON ELSE OFF)
            /\ values'["n64"][DP_RIGHT] = (IF e.value[1] = 1 THEN ON ELSE OFF)
            /\ values'["n64"][DP_DOWN] = (IF e.value[2] = -1 THEN ON ELSE OFF)
            /\ values'["n64"][DP_UP] = (IF e.value[2] = 1 THEN ON ELSE OFF)
            /\ DOMAIN values'["n64"] = DOMAIN values["n64"]
            /\ \A k \in DOMAIN values["n64"] \ {DP_LEFT, DP_RIGHT, DP_DOWN, DP_UP} :
                   values'["n64"][k] = values["n64"][k]
            /\ values'["xbox"] = values["xbox"]
            /\ creep_mode' = creep_mode
            /\ reverse_mode' = reverse_mode
            /\ quit' = quit]_vars

\* the hat of the n64 device stands right and up, with the A button of the
\* device held and reverse mode on
C27_Witness ==
    /\ MappedTo(1) = "n64"
    /\ values["n64"][DP_RIGHT] = ON /\ values["n64"][DP_UP] = ON
    /\ values["n64"][DP_LEFT] = OFF /\ values["n64"][DP_DOWN] = OFF
    /\ values["n64"][N64_A] = ON
    /\ reverse_mode

----------------------------------------------------------------------------
(* Claims about the heartbeat frame and its cadence *)

\* the Unix time in seconds of the last operation of the tester, modulo 2^16
BeatSeconds == (tester.last.at \div 1000) % 65536

\* C28: the message the manager builds is 3 bytes, 0xAA and then the Unix
\* seconds modulo 2^16 with the high byte first, and parsing it gives that
\* value; parsing a frame of fewer than 3 bytes, or one whose first byte is
\* not 0xAA, gives None
C28_HeartbeatFrame ==
    /\ tester.last.op = "test_heartbeat_creation" =>
          /\ Len(tester.last.message) = 3
          /\ tester.last.message[1] = 170
          /\ tester.last.message[2] = BeatSeconds \div 256
          /\ tester.last.message[3] = BeatSeconds % 256
          /\ ~tester.last.none
          /\ tester.last.ret.timestamp = BeatSeconds
    /\ tester.last.op = "simulate_receive_heartbeat" =>
          /\ Len(tester.last.message) < 3 => tester.last.none
          /\ Len(tester.last.message) >= 1 /\ tester.last.message[1] # 170
                => tester.last.none
          /\ tester.last.message = create_heartbeat_message(tester.last.at)
                => ~tester.last.none /\ tester.last.ret.timestamp = BeatSeconds

\* a message built 65794 s after the epoch is AA 01 02 and parses to 258
C28_Witness ==
    /\ tester.last.op = "test_heartbeat_creation"
    /\ tester.last.at = 65794000
    /\ tester.last.message = <<170, 1, 2>>
    /\ tester.last.ret.timestamp = 258

\* update() has sent a heartbeat in this step, after an earlier heartbeat
IsNextBeat ==
    /\ call' # call /\ call'.op = "update" /\ call'.ret
    /\ call'.before_time > 0

\* the poll before this one made no attempt that the transport refused
NoFailedPoll == call.sent = <<>> \/ call.ret

\* C29: a heartbeat that update() sends comes no sooner than
\* heartbeat_interval after the heartbeat before it; when the polls are at
\* most p apart, p no longer than the interval, and the transport refuses
\* none, it comes no later than interval + p after it; and
\* test_interval_timing, interval 500 ms and polls every 100 ms from a
\* fresh manager, counts 6 heartbeats in 3 seconds, give or take one
C29_Cadence ==
    /\ [][IsNextBeat =>
            call'.at - call'.before_time >= hb.heartbeat_interval]_vars
    /\ [][IsNextBeat /\ NoFailedPoll =>
            call'.at - call'.before_time
                <= hb.heartbeat_interval + ONE_HUNDRED_MS]_vars
    /\ [](tester.pc = "done" => tester.heartbeat_count \in 5..7)

\* update() polled 50 and 100 ms apart has sent a heartbeat 550 ms after
\* the one before, the interval being 500 ms
C29_Witness ==
    /\ call.op = "update" /\ call.ret
    /\ hb.heartbeat_interval = FIVE_HUNDRED_MS
    /\ call.before_time > 0
    /\ call.at - call.before_time = FIVE_HUNDRED_MS + 50

----------------------------------------------------------------------------
(* Claims about the ticks of the control loop *)

\* a step that is the update_info of a tick
IsUpdateInfo == pc = "update" /\ pc' # "update"

\* the controller-data frame of the current state
FrameOfState ==
    create_combined_message(get_controller_values(values, "xbox"),
                            get_controller_values(values, "n64"), reverse_mode)

\* the events of a tick are all applied before its update_info, and the
\* frame that update_info hands to the transport is the one of the state
\* they left
FrameAfterEvents ==
    /\ [][cmVars' # cmVars => pc = "events"]_vars
    /\ [][pc = "events" /\ pc' # "events" /\ ~quit' => pc' = "update"]_vars
    /\ [][IsUpdateInfo =>
            \A i \in SentBy(call', "controller_data") :
                call'.sent[i].frame = FrameOfState]_vars

\* C30 as stated: an update_info is called no sooner than UPDATE_FREQUENCY
\* after the update_info before it, and the frame of a tick is the one of
\* the state after the last event of the tick
C30_UpdateSpacing ==
    /\ [][IsUpdateInfo /\ call.op = "update_info" =>
            now - call.at >= UPDATE_FREQUENCY]_vars
    /\ FrameAfterEvents

\* C30 amended: a tick runs update_info once, and the clock reading
\* current_time of a tick is no sooner than UPDATE_FREQUENCY after timer, the
\* reading of the tick before it (of the start of the loop, for the first
\* tick); the calls of update_info themselves may be closer, as the events
\* of a tick take time.  The frame of a tick is the one of the state after
\* the last event of the tick.
C30_TickSpacing ==
    /\ [][pc = "loop" /\ pc' = "events" =>
            now >= timer + UPDATE_FREQUENCY /\ current_time' = now]_vars
    /\ [][IsUpdateInfo =>
            /\ current_time >= timer + UPDATE_FREQUENCY
            /\ now >= current_time
            /\ pc' = "sleep" => timer' = current_time]_vars
    /\ [][timer' # timer => IsUpdateInfo]_vars
    /\ FrameAfterEvents

\* a tick two periods or more after the start has sent the frame of a
\* moved stick, its update_info called after its clock reading
C30_Witness ==
    /\ call.op = "update_info" /\ pc = "sleep"
    /\ timer - StartTime >= 2 * UPDATE_FREQUENCY
    /\ SentBy(call, "controller_data") # {}
    /\ values["xbox"][AXIS_LY] # NEUTRAL_HEX
    /\ call.at > timer

----------------------------------------------------------------------------
(* Claims about the display, the shutdown and the frames sent *)

\* C31: the display holds no dict of ControllerState, and the dict that the
\* UI thread goes through is, at every item, the dict it was when the loop
\* began: an event processed after the hand-off changes neither an item nor
\* the size of it
C31_DisplaySnapshot ==
    /\ display.controller_values \notin DOMAIN values
    /\ display.pc = "for" => Held = display.at_start
    /\ display.pc # "raised"

\* C32: once quit is true the loop takes no new tick: it leaves at its next
\* test of the flag, the quit message is sent (by a send that the transport
\* may refuse) and then cleanup runs, which closes the device when
\* communication is on; the thread comes to its end
C32_ShutdownTerminates ==
    /\ quit ~> (pc = "done" /\ wire.closed = xbee_enabled)
    /\ [][pc = "loop" /\ quit /\ pc' # "loop" => pc' = "finally"]_vars
    /\ [][pc # "cleanup" /\ pc' = "cleanup" =>
            pc = "finally" /\ call'.op = "send_quit_message"]_vars
    /\ [][pc # "done" /\ pc' = "done" => pc = "cleanup"]_vars
    /\ [][~wire.closed /\ wire'.closed => pc = "cleanup" /\ pc' = "done"]_vars

\* the thread has ended with the device closed after a quit frame that the
\* transport refused
C32_Witness ==
    /\ pc = "done" /\ quit /\ wire.closed
    /\ call.op = "send_quit_message"
    /\ call.sent # <<>> /\ ~call.ret

\* C33: send_controller_data hands a frame to the transport exactly when
\* communication is enabled, both handles are set and the frame built from
\* its arguments is not the cached one, and the frame handed is that frame;
\* when disabled or without a handle it returns FALSE, hands nothing and
\* leaves the manager as it was.  enable and disable change the enabled flag
\* only, so the cached frame outlives them: right after enable the frame
\* that is cached is held back and another one is handed over.
C33_SendIff ==
    [][/\ IsDataCall(call') =>
            /\ (call'.sent # <<>>) <=>
                  (Ready(comm) /\ IsByteList(FrameOf(call'))
                     /\ FrameOf(call') # comm.last_message)
            /\ call'.sent # <<>> =>
                  call'.sent = <<[frame |-> FrameOf(call'), ok |-> call'.ok,
                                  by |-> "controller_data"]>>
            /\ ~Ready(comm) =>
                  ~call'.ret /\ ~call'.raised /\ call'.sent = <<>> /\ comm' = comm
       /\ call'.op \in {"enable", "disable"} =>
            /\ comm' = [comm EXCEPT !.enabled = (call'.op = "enable")]
            /\ call'.sent = <<>>
       /\ (call.op = "enable" /\ IsDataCall(call') /\ comm.xbee_device
             /\ comm.remote_xbee /\ IsByteList(FrameOf(call'))) =>
            (call'.sent = <<>>) <=> (FrameOf(call') = comm.last_message)]_vars

\* a call made while communication is disabled, with a frame that is not the
\* cached one: nothing handed, FALSE returned, the cache as before
C33_Witness ==
    /\ IsDataCall(call) /\ ~comm.enabled
    /\ comm.xbee_device /\ comm.remote_xbee
    /\ IsByteList(FrameOf(call)) /\ FrameOf(call) # comm.last_message
    /\ call.sent = <<>> /\ ~call.ret
    /\ comm.last_message # <<>> /\ comm.last_message = call.before_message

IsCommSend(k) ==
    k.op \in {"send_controller_data", "send_compact_message",
              "send_quit_message", "CommunicationManager.send_heartbeat"}
IsManagerSend(k) == k.op \in {"send_heartbeat", "update"}
\* the call handed one frame and the transport took it
Accepted(k) == Len(k.sent) = 1 /\ k.sent[1].ok

\* C34: last_message is empty at first and every operation leaves in it the
\* frame it handed over when it is a send of the CommunicationManager that
\* the transport took, and what it held otherwise.  A controller-data call
\* with the frame that was cached before a HeartbeatManager heartbeat hands
\* nothing over; with the frame that was cached before a compact message or
\* a CommunicationManager heartbeat that the transport took, and that has
\* other bytes, it hands the frame over again.
C34_LastMessage ==
    /\ [](call = NoCall => comm.last_message = <<>>)
    /\ [][comm'.last_message =
            IF IsCommSend(call') /\ Accepted(call')
            THEN call'.sent[1].frame ELSE comm.last_message]_vars
    /\ [][(IsManagerSend(call) /\ Accepted(call) /\ IsDataCall(call')
             /\ IsByteList(FrameOf(call'))
             /\ FrameOf(call') = call.before_message)
            => (call'.sent = <<>> /\ ~call'.ret)]_vars
    /\ [][(call.op \in {"send_compact_message",
                        "CommunicationManager.send_heartbeat"}
             /\ Accepted(call) /\ IsDataCall(call') /\ Ready(comm)
             /\ IsByteList(FrameOf(call'))
             /\ FrameOf(call') = call.before_message
             /\ FrameOf(call') # call.sent[1].frame)
            => call'.sent = <<[frame |-> FrameOf(call'), ok |-> call'.ok,
                               by |-> "controller_data"]>>]_vars

\* a controller-data frame the transport took while the cache held a
\* heartbeat frame, which only CommunicationManager.send_heartbeat leaves there
C34_Witness ==
    /\ IsDataCall(call) /\ Accepted(call)
    /\ Len(call.before_message) = HEARTBEAT_MESSAGE_LENGTH
    /\ call.before_message[1] = HEARTBEAT_MESSAGE
    /\ comm.last_message = FrameOf(call)
    /\ hb.last_heartbeat_time = now

\* the legacy frame of the state the input events have led to
LegacyFrame == create_combined_message(values["xbox"], values["n64"], reverse_mode)

\* C35: in the legacy frame of every state that input events lead to, the
\* START byte stands at the first place of the xbox half and of the n64 half
\* and nowhere else, the QUIT byte stands nowhere, the two axis bytes are in
\* 0..200, the five packed button bytes are in 85..170 and the fourth n64
\* byte is 1 or 2; its first byte is neither that of a heartbeat frame nor
\* that of the quit frame.
C35_FrameBytes ==
    /\ Len(LegacyFrame) = 10
    /\ \A i \in 1..10 :
          /\ LegacyFrame[i] = START_MESSAGE <=> i \in {1, 6}
          /\ LegacyFrame[i] # QUIT_MESSAGE
    /\ \A i \in {2, 3} : LegacyFrame[i] \in MIN_VALUE..MAX_VALUE
    /\ \A i \in {4, 5, 7, 8, 9} : LegacyFrame[i] \in 85..170
    /\ LegacyFrame[10] \in {OFF, ON}
    /\ LegacyFrame[1] # create_heartbeat_message(now)[1]
    /\ LegacyFrame[1] # <<QUIT_MESSAGE>>[1]
    /\ create_heartbeat_message(now)[1] # QUIT_MESSAGE

\* both sticks at opposite ends under reverse_mode, the trigger pulled, the
\* buttons of the lowest and the highest field pressed, Z pressed and the hat
\* of the auxiliary controller up and left
C35_Witness ==
    /\ reverse_mode
    /\ LegacyFrame[2] = MAX_VALUE /\ LegacyFrame[3] = MIN_VALUE
    /\ LegacyFrame[4] = 1 * ON + 4 * OFF + 16 * OFF + 64 * ON
    /\ LegacyFrame[5] = 1 * OFF + 4 * OFF + 16 * OFF + 64 * ON
    /\ LegacyFrame[9] = 1 * ON + 4 * OFF + 16 * ON + 64 * OFF
    /\ LegacyFrame[10] = ON

XboxPackedKeys ==
    {XBOX_A + 6, XBOX_B + 6, XBOX_X + 6, XBOX_Y + 6,
     LEFT_BUMPER + 6, RIGHT_BUMPER + 6, AXIS_LT, AXIS_RT}
N64PackedKeys ==
    {N64_A, N64_B, N64_L, N64_R, C_UP, C_DOWN, C_LEFT, C_RIGHT,
     DP_UP, DP_DOWN, DP_LEFT, DP_RIGHT, N64_Z}

\* what the frame is made of: LY, RY, the 8 xbox fields, the 13 n64 fields
\* and reverse_mode
FrameInputs(vals, rev) ==
    [xbox |-> [k \in XboxPackedKeys \cup {AXIS_LY, AXIS_RY} |-> vals["xbox"][k]],
     n64 |-> [k \in N64PackedKeys |-> vals["n64"][k]],
     reverse_mode |-> rev]

SentData(k) == {i \in 1..Len(k.sent) : k.sent[i].by = "controller_data"}

\* C36: a step that leaves LY, RY, the packed fields and reverse_mode as they
\* were leaves the legacy frame as it was, whatever it does to LX, RX,
\* SELECT, START, HOME, other keys or creep_mode; and update_info hands no
\* controller-data frame over while the frame of the state is the cached one.
C36_FrameInputs ==
    /\ [][FrameInputs(values', reverse_mode') = FrameInputs(values, reverse_mode)
            => LegacyFrame' = LegacyFrame]_vars
    /\ [][(pc = "update" /\ pc' # "update" /\ LegacyFrame = comm.last_message)
            => (SentData(call') = {} /\ comm'.last_message = comm.last_message)]_vars

\* a tick that handed no controller-data frame over: the cached frame is the
\* one of the state, sent before LX was pushed, START pressed and creep_mode
\* set
C36_Witness ==
    /\ call.op = "update_info" /\ SentData(call) = {}
    /\ xbee_enabled /\ comm.last_message = LegacyFrame
    /\ call.before_message = LegacyFrame
    /\ values["xbox"][AXIS_LX] # NEUTRAL_HEX
    /\ values["xbox"][START + 6] = ON
    /\ creep_mode

\* C37: a hat event of the drive controller leaves both maps of
\* ControllerState as they were, also when it sets or clears a mode; the byte
\* stored for a stick axis changes only in an axis event of that axis, which
\* stores the byte of the multiplier of that moment; and when reverse_mode
\* changes, the frame of the state has its LY and RY bytes the other way
\* round at once and its other bytes as before.
C37_ModesLeaveValues ==
    [][\A e \in ModeEvents :
         ProcessEvent(e) =>
            /\ e.type = "JOYHATMOTION" => values' = values
            /\ (creep_mode' # creep_mode \/ reverse_mode' # reverse_mode)
                  => (e.type = "JOYHATMOTION" /\ values' = values)
            /\ \A a \in XboxAxisKeys :
                  values'["xbox"][a] # values["xbox"][a]
                     => /\ e.type = "JOYAXISMOTION" /\ e.axis = a
                        /\ values'["xbox"][a] =
                              SpecAxisByte(e.value, creep_mode, reverse_mode)
            /\ reverse_mode' # reverse_mode
                  => /\ LegacyFrame'[2] = LegacyFrame[3]
                     /\ LegacyFrame'[3] = LegacyFrame[2]
                     /\ \A i \in (1..10) \ {2, 3} : LegacyFrame'[i] = LegacyFrame[i]]_vars

\* both modes on; LY holds the byte of the reading beyond the end under the
\* normal forward multiplier, which no creep multiplier gives, RY the byte of
\* the half-way reading under the reversed creep multiplier, and the frame
\* has RY first
C37_Witness ==
    /\ creep_mode /\ reverse_mode
    /\ values["xbox"][AXIS_LY] = MIN_VALUE
    /\ values["xbox"][AXIS_RY] = SpecAxisByte(50, TRUE, TRUE)
    /\ LegacyFrame[2] = values["xbox"][AXIS_RY]
    /\ LegacyFrame[3] = MIN_VALUE

\* C38: no step takes quit from TRUE to FALSE, be it an event of the batch,
\* the end of the batch, update_info, the sleep, the clock, the interrupt of
\* main, the quit message or cleanup; and the loop is left with quit set.
C38_QuitMonotonic ==
    /\ [][quit => quit']_vars
    /\ [](pc \in {"finally", "cleanup", "done"} => quit)

\* quit is set, by the HOME button, and a device was added after it in the
\* same batch of events
C38_Witness ==
    /\ quit /\ pc = "events"
    /\ HOME + 6 \in DOMAIN values["xbox"]
    /\ values["xbox"][HOME + 6] = OFF
    /\ joysticks = {0}
    /\ values["xbox"][AXIS_LY] # NEUTRAL_INT

\* C39: an axis event of the drive controller with a reading in [-1, 1]
\* stores floor(m*v + 100) as it is, the clamp changing nothing: a byte in
\* 0..200 under multiplier 100 or -100 and in 80..120 under 20 or -20.  The
\* bytes of one reading under m and under -m add up to 200 when m*v is whole
\* and to 199 when it is not.
C39_ClampAndFloor ==
    [][\A e \in AxisEvents({0}, {AXIS_LY}, AxisRaws) :
         (ProcessEvent(e) /\ e.value \in (0 - 100)..100) =>
            LET v == apply_deadband(e.value)
                m == calculate_axis_multiplier(Cur, "xbox")
                stored == values'["xbox"][e.axis]
                forward == convert_axis_value(v, Abs(m))
                reversed == convert_axis_value(v, 0 - Abs(m))
            IN  /\ stored = ((m * v) \div 100) + NEUTRAL_INT
                /\ Abs(m) = NORMAL_MULTIPLIER => stored \in MIN_VALUE..MAX_VALUE
                /\ creep_mode => (Abs(m) = CREEP_MULTIPLIER /\ stored \in 80..120)
                /\ stored = IF reverse_mode THEN reversed ELSE forward
                /\ reversed = IF (Abs(m) * v) % 100 = 0
                              THEN 200 - forward
                              ELSE 200 - forward - 1]_vars

\* the byte of the reading 0.16 under the reversed creep multiplier: 96, one
\* less than the mirror image of the forward byte 103
C39_Witness ==
    /\ creep_mode /\ reverse_mode
    /\ values["xbox"][AXIS_LY] = convert_axis_value(16, 0 - CREEP_MULTIPLIER)
    /\ values["xbox"][AXIS_LY] = 200 - convert_axis_value(16, CREEP_MULTIPLIER) - 1

\* C40: after any hat events and any button events (index below 14) of the
\* auxiliary controller, DP_LEFT and DP_RIGHT are not both ON and DP_UP and
\* DP_DOWN are not both ON.
C40_DpadExclusive ==
    /\ ~(values["n64"][DP_LEFT] = ON /\ values["n64"][DP_RIGHT] = ON)
    /\ ~(values["n64"][DP_UP] = ON /\ values["n64"][DP_DOWN] = ON)

\* the hat stands left and down after the button of index 13 was pressed and
\* the button of index 0 pressed and released
C40_Witness ==
    /\ values["n64"][DP_LEFT] = ON /\ values["n64"][DP_DOWN] = ON
    /\ values["n64"][DP_RIGHT] = OFF /\ values["n64"][DP_UP] = OFF
    /\ MaxN64Button \in DOMAIN values["n64"]
    /\ values["n64"][MaxN64Button] = ON
    /\ values["n64"][C_DOWN] = OFF

=============================================================================
